---- MODULE Spec2Model ----
(***************************************************************************)
(* B-tree navigators of the SQLite file reader: full scan, filtered scan   *)
(* and point lookup over table B-trees, equality scan over index B-trees,  *)
(* with the varint / serial-type / record codecs they decode cells with.   *)
(*                                                                         *)
(* A file is a function from page numbers to pages.  A page carries its    *)
(* type byte, its cells as byte strings in cell-pointer-array order, and   *)
(* its rightmost-child pointer.  Cells are bytes: every key, child pointer *)
(* and column the navigators use is decoded from them by the codecs below. *)
(* JavaScript strings are sequences of UTF-16 code units; JavaScript       *)
(* bitwise operators work on 32-bit two's-complement integers.             *)
(***************************************************************************)
EXTENDS Integers, Sequences, FiniteSets, TLC

(***************************************************************************)
(* Bounds of the model.                                                    *)
(***************************************************************************)
\* largest number of cells on one page
MaxCells == 2
\* row keys 1..NumSmallKeys, each a one-byte varint
NumSmallKeys == 3
\* largest height of a generated B-tree (1 = a single leaf page)
MaxDepth == 3

(***************************************************************************)
(* Bytes, buffers and JavaScript integer arithmetic.                       *)
(***************************************************************************)
\* buffer[offset] of a zero-initialised Uint8Array holding buf at its start
At(buf, offset) == IF offset >= 0 /\ offset < Len(buf) THEN buf[offset + 1] ELSE 0

\* (v << k) as JavaScript computes it: the low 32 bits, read as a signed int
Shl32(v, k) ==
  LET m == 2 ^ (32 - k)
      u == v % m
  IN  IF u >= m \div 2 THEN (u - m) * (2 ^ k) ELSE u * (2 ^ k)

\* DataView.getUint32(offset, false) for values below 2^31
getUint32(buf, offset) ==
  ((At(buf, offset) * 256 + At(buf, offset + 1)) * 256 + At(buf, offset + 2)) * 256
    + At(buf, offset + 3)

\* big-endian bytes of a page number
U32BE(n) == << (n \div 16777216) % 256, (n \div 65536) % 256, (n \div 256) % 256, n % 256 >>

RECURSIVE DecDigits(_)
DecDigits(n) == IF n < 10 THEN << 48 + n >> ELSE DecDigits(n \div 10) \o << 48 + (n % 10) >>

\* Number.prototype.toString() of an integer, as UTF-16 code units
NumToString(n) ==
  IF n >= 0 THEN DecDigits(n)
  ELSE IF n = (0 - 2147483647) - 1 THEN << 45 >> \o DecDigits(214748364) \o << 56 >>
  ELSE << 45 >> \o DecDigits(0 - n)

\* a < b and a <= b on JavaScript strings: code unit by code unit, a proper
\* prefix first
RECURSIVE StringLess(_, _)
StringLess(a, b) ==
  IF Len(b) = 0 THEN FALSE
  ELSE IF Len(a) = 0 THEN TRUE
  ELSE IF a[1] # b[1] THEN a[1] < b[1]
  ELSE StringLess(Tail(a), Tail(b))

StringLessEq(a, b) == a = b \/ StringLess(a, b)

\* buffer.slice(from, to): clamped to the buffer
Slice(buf, from, to) ==
  LET hi == IF to > Len(buf) THEN Len(buf) ELSE to
  IN  IF from >= hi THEN << >> ELSE [ j \in 1 .. (hi - from) |-> buf[from + j] ]

\* new TextDecoder().decode(bytes) for ASCII bytes: one code unit per byte
TextDecode(bytes) == bytes

(***************************************************************************)
(* utils/varint: readVarint                                                *)
(***************************************************************************)
\* the loop running one turn too many: the tenth byte is the last
RECURSIVE readVarintLoopTen(_, _, _, _)
readVarintLoopTen(buffer, offset, i, value) ==
  LET byte == At(buffer, offset + i)
  IN  IF i = 9
      THEN << Shl32(value, 8) + byte, i + 1 >>
      ELSE LET v == Shl32(value, 7) + (byte % 128)
           IN  IF byte \div 128 = 0
               THEN << v, i + 1 >>
               ELSE readVarintLoopTen(buffer, offset, i + 1, v)

RECURSIVE readVarintLoop(_, _, _, _)
readVarintLoop(buffer, offset, i, value) ==
  LET byte == At(buffer, offset + i)
  IN  IF i = 8
      THEN << Shl32(value, 8) + byte, i + 1 >>
      ELSE LET v == Shl32(value, 7) + (byte % 128)
           IN  IF byte \div 128 = 0
               THEN << v, i + 1 >>
               ELSE readVarintLoop(buffer, offset, i + 1, v)

\* [value, bytesRead]
readVarint(buffer, offset) == readVarintLoop(buffer, offset, 0, 0)

(***************************************************************************)
(* utils/serialTypes: getSerialTypeSize, parseSerialValue                  *)
(***************************************************************************)
\* the integer codes taken for their own width: 5 and 6 give 5 and 6 bytes
getSerialTypeSizeByCode(serialType) ==
  IF serialType >= 1 /\ serialType <= 6 THEN serialType
  ELSE IF serialType = 7 THEN 8
  ELSE IF serialType >= 12 /\ serialType % 2 = 0 THEN (serialType - 12) \div 2
  ELSE IF serialType >= 13 /\ serialType % 2 = 1 THEN (serialType - 13) \div 2
  ELSE 0

getSerialTypeSize(serialType) ==
  IF serialType = 0 THEN 0
  ELSE IF serialType = 1 THEN 1
  ELSE IF serialType = 2 THEN 2
  ELSE IF serialType = 3 THEN 3
  ELSE IF serialType = 4 THEN 4
  ELSE IF serialType = 5 THEN 6
  ELSE IF serialType = 6 THEN 8
  ELSE IF serialType = 7 THEN 8
  ELSE IF serialType = 8 THEN 0
  ELSE IF serialType = 9 THEN 0
  ELSE IF serialType = 10 \/ serialType = 11 THEN 0
  ELSE IF serialType >= 12 /\ serialType % 2 = 0 THEN (serialType - 12) \div 2
  ELSE IF serialType >= 13 /\ serialType % 2 = 1 THEN (serialType - 13) \div 2
  ELSE 0

\* DataView.getInt8 / getInt16 / the 3-byte branch / getInt32, big-endian
getInt8(buf, offset) ==
  LET b == At(buf, offset) IN IF b >= 128 THEN b - 256 ELSE b

getInt16(buf, offset) ==
  LET u == At(buf, offset) * 256 + At(buf, offset + 1)
  IN  IF u >= 32768 THEN u - 65536 ELSE u

\* the 3-byte branch without the test of bit 23
getUint24(buf, offset) ==
  (At(buf, offset) * 256 + At(buf, offset + 1)) * 256 + At(buf, offset + 2)

getInt24(buf, offset) ==
  LET u == (At(buf, offset) * 256 + At(buf, offset + 1)) * 256 + At(buf, offset + 2)
  IN  IF u >= 8388608 THEN u - 16777216 ELSE u

getInt32(buf, offset) ==
  LET b0 == At(buf, offset)
      hi == IF b0 >= 128 THEN b0 - 256 ELSE b0
  IN  ((hi * 256 + At(buf, offset + 1)) * 256 + At(buf, offset + 2)) * 256
        + At(buf, offset + 3)

\* high * 0x100000000 + low, high = getInt16, low = getUint32: evaluated
\* here for the values that fit 32 bits (high is the sign extension of low)
getInt48(buf, offset) ==
  LET high == getInt16(buf, offset)
  IN  IF high = 0 THEN getUint32(buf, offset + 2)
      ELSE IF high = 0 - 1 THEN getInt32(buf, offset + 2)
      ELSE high * 65536 * 65536 + getUint32(buf, offset + 2)

\* Number(view.getBigInt64(0, false)), for the values that fit 32 bits
getBigInt64(buf, offset) ==
  LET high == getInt32(buf, offset)
  IN  IF high = 0 THEN getUint32(buf, offset + 4)
      ELSE IF high = 0 - 1 THEN getInt32(buf, offset + 4)
      ELSE high * 65536 * 65536 + getUint32(buf, offset + 4)

\* the if / else-if chain on size shared by parseSerialValue, parseIndexValue
\* and the rowid of parseIndexEntry; intValue starts as 0
IntOfSize(buf, offset, size) ==
  IF size = 1 THEN getInt8(buf, offset)
  ELSE IF size = 2 THEN getInt16(buf, offset)
  ELSE IF size = 3 THEN getInt24(buf, offset)
  ELSE IF size = 4 THEN getInt32(buf, offset)
  ELSE IF size = 6 THEN getInt48(buf, offset)
  ELSE IF size = 8 THEN getBigInt64(buf, offset)
  ELSE 0

\* view.getFloat64(0, false).toString(): "0" for +0.0; any other double is
\* kept as a token holding its eight bytes
Float64ToString(buf, offset) ==
  IF \A j \in 0 .. 7 : At(buf, offset + j) = 0
  THEN << 48 >>
  ELSE << 0 - 1 >> \o [ j \in 1 .. 8 |-> At(buf, offset + j - 1) ]

parseSerialValue(buffer, offset, serialType) ==
  LET size == getSerialTypeSize(serialType)
  IN  IF serialType = 0 THEN << >>
      ELSE IF serialType = 8 THEN << 48 >>
      ELSE IF serialType = 9 THEN << 49 >>
      ELSE IF serialType >= 1 /\ serialType <= 6
           THEN NumToString(IntOfSize(buffer, offset, size))
      ELSE IF serialType = 7 THEN Float64ToString(buffer, offset)
      ELSE TextDecode(Slice(buffer, offset, offset + size))

(***************************************************************************)
(* parser/record: parseRecord                                              *)
(***************************************************************************)
\* the while loop over the record header: [serialTypes, offset]
RECURSIVE readSerialTypes(_, _, _, _, _)
readSerialTypes(buffer, offset, headerStart, headerSize, serialTypes) ==
  IF offset - headerStart < headerSize
  THEN LET t == readVarint(buffer, offset)
       IN  readSerialTypes(buffer, offset + t[2], headerStart, headerSize,
                           Append(serialTypes, t[1]))
  ELSE << serialTypes, offset >>

\* the value loop without its advance: every column decoded at the body start
RECURSIVE readValuesInPlace(_, _, _, _)
readValuesInPlace(buffer, offset, serialTypes, i) ==
  IF i > Len(serialTypes) THEN << >>
  ELSE << parseSerialValue(buffer, offset, serialTypes[i]) >>
         \o readValuesInPlace(buffer, offset, serialTypes, i + 1)

\* the value loop ending one column early
RECURSIVE readValuesButLast(_, _, _, _)
readValuesButLast(buffer, offset, serialTypes, i) ==
  IF i >= Len(serialTypes) THEN << >>
  ELSE << parseSerialValue(buffer, offset, serialTypes[i]) >>
         \o readValuesButLast(buffer, offset + getSerialTypeSize(serialTypes[i]),
                              serialTypes, i + 1)

\* the for loop over the serial types: the column values
RECURSIVE readValues(_, _, _, _)
readValues(buffer, offset, serialTypes, i) ==
  IF i > Len(serialTypes) THEN << >>
  ELSE << parseSerialValue(buffer, offset, serialTypes[i]) >>
         \o readValues(buffer, offset + getSerialTypeSize(serialTypes[i]), serialTypes, i + 1)

parseRecord(buffer) ==
  LET recordSize == readVarint(buffer, 0)
      o1         == recordSize[2]
      rowid      == readVarint(buffer, o1)
      o2         == o1 + rowid[2]
      headerSize == readVarint(buffer, o2)
      o3         == o2 + headerSize[2]
      st         == readSerialTypes(buffer, o3, o3 - headerSize[2], headerSize[1], << >>)
  IN  [ rowid |-> rowid[1], values |-> readValues(buffer, st[2], st[1], 1) ]

(***************************************************************************)
(* database/index: parseIndexValue, parseIndexEntry                        *)
(***************************************************************************)
parseIndexValue(cellBuffer, offset, serialType) ==
  LET size == getSerialTypeSize(serialType)
  IN  IF serialType = 0 THEN << >>
      ELSE IF serialType = 8 THEN << 48 >>
      ELSE IF serialType = 9 THEN << 49 >>
      ELSE IF serialType >= 1 /\ serialType <= 6
           THEN NumToString(IntOfSize(cellBuffer, offset, size))
      ELSE IF serialType = 7 THEN Float64ToString(cellBuffer, offset)
      ELSE TextDecode(Slice(cellBuffer, offset, offset + size))

\* for (let i = 1; i < serialTypes.length - 1; i++) offset += size
RECURSIVE skipIntermediate(_, _, _)
skipIntermediate(serialTypes, i, offset) ==
  IF i < Len(serialTypes) - 1
  THEN skipIntermediate(serialTypes, i + 1, offset + getSerialTypeSize(serialTypes[i + 1]))
  ELSE offset

\* a value of type number | null
NullNumber == [ null |-> TRUE, value |-> 0 ]
Number(v) == [ null |-> FALSE, value |-> v ]

\* the rowid read from the last column: only serial types 1..6 are read
parseIndexRowid(cellBuffer, offset, rowidSerialType) ==
  LET rowidSize == getSerialTypeSize(rowidSerialType)
  IN  IF rowidSerialType >= 1 /\ rowidSerialType <= 6 /\ rowidSize > 0
      THEN Number(IntOfSize(cellBuffer, offset, rowidSize))
      ELSE NullNumber

\* an index entry parsed as a table-leaf cell is: with a row-key varint
\* between the payload length and the header length
parseIndexEntryKeyed(cellBuffer, startOffset) ==
  LET payloadSize == readVarint(cellBuffer, startOffset)
      o0          == startOffset + payloadSize[2]
      o1          == o0 + readVarint(cellBuffer, o0)[2]
      headerSize  == readVarint(cellBuffer, o1)
      o2          == o1 + headerSize[2]
      st          == readSerialTypes(cellBuffer, o2, o2 - headerSize[2], headerSize[1], << >>)
      serialTypes == st[1]
      o3          == st[2]
      o4          == IF Len(serialTypes) >= 1 THEN o3 + getSerialTypeSize(serialTypes[1]) ELSE o3
  IN  [ indexedValue |->
          IF Len(serialTypes) >= 1 THEN parseIndexValue(cellBuffer, o3, serialTypes[1]) ELSE << >>,
        rowid |->
          IF Len(serialTypes) >= 2
          THEN parseIndexRowid(cellBuffer, skipIntermediate(serialTypes, 1, o4),
                               serialTypes[Len(serialTypes)])
          ELSE NullNumber ]

parseIndexEntry(cellBuffer, startOffset) ==
  LET payloadSize == readVarint(cellBuffer, startOffset)
      o1          == startOffset + payloadSize[2]
      headerSize  == readVarint(cellBuffer, o1)
      o2          == o1 + headerSize[2]
      st          == readSerialTypes(cellBuffer, o2, o2 - headerSize[2], headerSize[1], << >>)
      serialTypes == st[1]
      o3          == st[2]
      o4          == IF Len(serialTypes) >= 1 THEN o3 + getSerialTypeSize(serialTypes[1]) ELSE o3
  IN  [ indexedValue |->
          IF Len(serialTypes) >= 1 THEN parseIndexValue(cellBuffer, o3, serialTypes[1]) ELSE << >>,
        rowid |->
          IF Len(serialTypes) >= 2
          THEN parseIndexRowid(cellBuffer, skipIntermediate(serialTypes, 1, o4),
                               serialTypes[Len(serialTypes)])
          ELSE NullNumber ]

(***************************************************************************)
(* The files the navigators are run on.                                    *)
(*                                                                         *)
(* Row keys are named by their rank in the key order, 1..NumKeys.  The     *)
(* first NumSmallKeys are the integers 1..NumSmallKeys; the last two are   *)
(* 2^31 and 2^32 + 1, which take a five-byte varint.  A key is written as  *)
(* its base-128 digits, most significant first.                            *)
(***************************************************************************)
NumKeys == NumSmallKeys + 2

KeyDigits(k) ==
  IF k <= NumSmallKeys THEN << k >>
  ELSE IF k = NumSmallKeys + 1 THEN << 8, 0, 0, 0, 0 >>
  ELSE << 16, 0, 0, 0, 1 >>

\* the varint that stores a key: high bit set on every byte but the last
VarintBytes(digits) ==
  [ j \in 1 .. Len(digits) |-> IF j < Len(digits) THEN digits[j] + 128 ELSE digits[j] ]

\* the text column stored with key k: one letter, "a" for the first key
RowText(k) == << 96 + k >>

\* table-leaf cell: payload length, row key, record (header length, types, body)
TableLeafCell(k) ==
  LET body   == RowText(k)
      header == << 2, 13 + 2 * Len(body) >>
  IN  << Len(header) + Len(body) >> \o VarintBytes(KeyDigits(k)) \o header \o body

\* table-interior cell: 32-bit left child, key varint
TableInteriorCell(leftChildPage, k) == U32BE(leftChildPage) \o VarintBytes(KeyDigits(k))

\* page types
TableLeaf == 13
TableInterior == 5
IndexLeaf == 10
IndexInterior == 2

(***************************************************************************)
(* Table B-trees as terms: a leaf is the ascending sequence of its keys,   *)
(* an interior node the sequence of its children (the last one is the      *)
(* rightmost child).  Every generated tree is a well-formed table B-tree:  *)
(* keys ascend from left to right, and the key of an interior cell is the  *)
(* largest key of its left subtree.                                        *)
(***************************************************************************)
RECURSIVE AscSeqs(_, _, _)
AscSeqs(lo, hi, n) ==
  IF n = 0 THEN { << >> }
  ELSE UNION { { << k >> \o s : s \in AscSeqs(k + 1, hi, n - 1) } : k \in lo .. hi }

RECURSIVE TreeMaxKey(_)
TreeMaxKey(t) ==
  IF t.leaf THEN t.keys[Len(t.keys)] ELSE TreeMaxKey(t.kids[Len(t.kids)])

RECURSIVE TableTrees(_, _, _)
RECURSIVE KidSeqs(_, _, _, _)
TableTrees(d, lo, hi) ==
  { [ leaf |-> TRUE, keys |-> s ] :
      s \in UNION { AscSeqs(lo, hi, n) : n \in 1 .. MaxCells } }
  \cup
  ( IF d > 1
    THEN { [ leaf |-> FALSE, kids |-> ks ] :
             ks \in UNION { KidSeqs(d - 1, lo, hi, m) : m \in 2 .. (MaxCells + 1) } }
    ELSE { } )

KidSeqs(d, lo, hi, m) ==
  IF m = 0 THEN { << >> }
  ELSE UNION { { << t >> \o rest : rest \in KidSeqs(d, TreeMaxKey(t) + 1, hi, m - 1) } :
               t \in TableTrees(d, lo, hi) }

\* the empty table and every non-empty tree
AllTableTrees == { [ leaf |-> TRUE, keys |-> << >> ] } \cup TableTrees(MaxDepth, 1, NumKeys)

RECURSIVE TreeSize(_)
RECURSIVE KidsSize(_, _)
TreeSize(t) == IF t.leaf THEN 1 ELSE 1 + KidsSize(t.kids, Len(t.kids))
KidsSize(kids, m) == IF m = 0 THEN 0 ELSE KidsSize(kids, m - 1) + TreeSize(kids[m])

\* the page number of the i-th child when the parent is page n: pages are
\* numbered in preorder
KidPage(kids, n, i) == n + 1 + KidsSize(kids, i - 1)

\* the pages of tree t rooted at page n, as a function from page numbers
RECURSIVE TablePages(_, _)
RECURSIVE KidsPages(_, _, _)
TablePages(t, n) ==
  IF t.leaf
  THEN n :> [ type  |-> TableLeaf,
              cells |-> [ i \in 1 .. Len(t.keys) |-> TableLeafCell(t.keys[i]) ],
              right |-> 0 ]
  ELSE ( n :> [ type  |-> TableInterior,
                cells |-> [ i \in 1 .. (Len(t.kids) - 1) |->
                              TableInteriorCell(KidPage(t.kids, n, i), TreeMaxKey(t.kids[i])) ],
                right |-> KidPage(t.kids, n, Len(t.kids)) ] )
       @@ KidsPages(t.kids, n, Len(t.kids))

KidsPages(kids, n, m) ==
  IF m = 0 THEN << >>
  ELSE KidsPages(kids, n, m - 1) @@ TablePages(kids[m], KidPage(kids, n, m))

\* the pointer arrays of all pages reversed: pointer order is not key order
ReversePointers(pgs) ==
  [ n \in DOMAIN pgs |->
      [ pgs[n] EXCEPT !.cells =
          [ i \in 1 .. Len(pgs[n].cells) |-> pgs[n].cells[Len(pgs[n].cells) + 1 - i] ] ] ]

\* table B-trees are rooted at page 2 (page 1 holds the schema)
TableRoot == 2

(***************************************************************************)
(* Index B-trees.  An index entry is the indexed column followed by the    *)
(* row key; entries are named by their rank in the index order (indexed    *)
(* value first, integers in numeric order and text in byte order, then row *)
(* key).  Integers are stored as SQLite stores them: 0 and 1 as serial     *)
(* types 8 and 9 without bytes, other values in the smallest width.        *)
(***************************************************************************)
TextEntry(text, rowid) == [ isInt |-> FALSE, int |-> 0, text |-> text, rowid |-> rowid ]
IntEntry(int, rowid) == [ isInt |-> TRUE, int |-> int, text |-> << >>, rowid |-> rowid ]

\* an index on a text column: two entries for "a", three for "b", one for "c"
TextEntries ==
  << TextEntry(<< 97 >>, 0), TextEntry(<< 97 >>, 3), TextEntry(<< 98 >>, 1),
     TextEntry(<< 98 >>, 2), TextEntry(<< 98 >>, 300), TextEntry(<< 99 >>, 4) >>

\* an index on an integer column: 2, 9 and two entries for 10
IntEntries ==
  << IntEntry(2, 5), IntEntry(9, 6), IntEntry(10, 7), IntEntry(10, 8) >>

IntSerialType(v) ==
  IF v = 0 THEN 8 ELSE IF v = 1 THEN 9
  ELSE IF v >= 0 - 128 /\ v <= 127 THEN 1 ELSE 2

IntBytes(v) ==
  IF v = 0 \/ v = 1 THEN << >>
  ELSE IF v >= 0 - 128 /\ v <= 127 THEN << v % 256 >>
  ELSE << (v \div 256) % 256, v % 256 >>

\* index-leaf cell: payload length, record of (indexed value, row key)
IndexLeafCell(e) ==
  LET keyType == IF e.isInt THEN IntSerialType(e.int) ELSE 13 + 2 * Len(e.text)
      keyBody == IF e.isInt THEN IntBytes(e.int) ELSE e.text
      payload == << 3, keyType, IntSerialType(e.rowid) >> \o keyBody \o IntBytes(e.rowid)
  IN  << Len(payload) >> \o payload

\* index-interior cell: 32-bit left child, then the same as a leaf cell
IndexInteriorCell(leftChildPage, e) == U32BE(leftChildPage) \o IndexLeafCell(e)

\* index trees as terms over entry ranks lo..hi: a leaf is an ascending
\* sequence of ranks; an interior node has children and, between each two
\* neighbours, the entry its cell stores, in ascending rank order throughout
RECURSIVE IndexTreeMax(_)
IndexTreeMax(t) ==
  IF t.leaf THEN t.keys[Len(t.keys)] ELSE IndexTreeMax(t.kids[Len(t.kids)])

RECURSIVE IndexTrees(_, _, _)
RECURSIVE IndexKidSeqs(_, _, _, _)
IndexTrees(d, lo, hi) ==
  { [ leaf |-> TRUE, keys |-> s, kids |-> << >> ] :
      s \in UNION { AscSeqs(lo, hi, n) : n \in 1 .. MaxCells } }
  \cup
  ( IF d > 1
    THEN { [ leaf |-> FALSE, keys |-> ks.seps, kids |-> ks.kids ] :
             ks \in UNION { IndexKidSeqs(d - 1, lo, hi, m) : m \in 2 .. (MaxCells + 1) } }
    ELSE { } )

IndexKidSeqs(d, lo, hi, m) ==
  IF m = 1
  THEN { [ kids |-> << t >>, seps |-> << >> ] : t \in IndexTrees(d, lo, hi) }
  ELSE UNION { UNION { { [ kids |-> << t >> \o rest.kids, seps |-> << sep >> \o rest.seps ] :
                           rest \in IndexKidSeqs(d, sep + 1, hi, m - 1) } :
                       sep \in (IndexTreeMax(t) + 1) .. hi } :
               t \in IndexTrees(d, lo, hi) }

\* the pages of index tree t rooted at page n over the entry list entries
RECURSIVE IndexPages(_, _, _)
RECURSIVE IndexKidsPages(_, _, _, _)
IndexPages(t, n, entries) ==
  IF t.leaf
  THEN n :> [ type  |-> IndexLeaf,
              cells |-> [ i \in 1 .. Len(t.keys) |-> IndexLeafCell(entries[t.keys[i]]) ],
              right |-> 0 ]
  ELSE ( n :> [ type  |-> IndexInterior,
                cells |-> [ i \in 1 .. Len(t.keys) |->
                              IndexInteriorCell(KidPage(t.kids, n, i), entries[t.keys[i]]) ],
                right |-> KidPage(t.kids, n, Len(t.kids)) ] )
       @@ IndexKidsPages(t.kids, n, Len(t.kids), entries)

IndexKidsPages(kids, n, m, entries) ==
  IF m = 0 THEN << >>
  ELSE IndexKidsPages(kids, n, m - 1, entries) @@ IndexPages(kids[m], KidPage(kids, n, m), entries)

\* index B-trees are rooted at page 2 of their file as well
IndexRoot == 2

IndexFilesOver(entries) ==
  { IndexPages(t, IndexRoot, entries) : t \in IndexTrees(MaxDepth, 1, Len(entries)) }

(***************************************************************************)
(* State.                                                                  *)
(***************************************************************************)
VARIABLES
  pages,    \* the file: page number -> [type, cells, right]; never written
  call,     \* the navigator call in progress and its arguments
  stack,    \* the activations of the recursive function, innermost last
  rows,     \* the rows array of a table scan
  rowids,   \* the rowids array of an index scan
  result,   \* what the call returned
  status,   \* "idle" before the call, "running", "done" once it has returned
  reads,    \* every file read the call has issued, in order
  emitted,  \* for each element of rows / rowids, the cell it was decoded from
  select,   \* the local variables of handleSelect while it runs
  suspended \* the calls that wait at an await while another one runs

vars == << pages, call, stack, rows, rowids, result, status, reads, emitted, select, suspended >>

\* the page size the caller read from the file header
pageSize == 512

NoPage == [ type |-> 0, cells |-> << >>, right |-> 0 ]
Null == [ null |-> TRUE ]
\* no call has returned anything yet: the caller holds no value
NoResult == << >>
NoCall == [ fn |-> "none" ]
NoSelect == [ phase |-> "none" ]

\* every file operation of this code is a fileHandler.read, which writes
\* into its buffer: the file after a step.  With a write in its place:
FileAfterWrite(file) == [ n \in DOMAIN file |-> NoPage ]

FileAfterReads(file) == file

(***************************************************************************)
(* The file image.  Page n takes the bytes from (n - 1) * pageSize; its    *)
(* B-tree header starts 100 bytes in on page 1.  The header holds the type *)
(* at byte 0 and the cell count at bytes 3..4, on interior pages the       *)
(* rightmost child at bytes 8..11; the pointer array follows it, and the   *)
(* cell of place i lies in a slot of CellSlot bytes, the i-th from the end *)
(* of the page.  Every other byte, and every byte past the end of the      *)
(* file, is read as 0.                                                     *)
(***************************************************************************)
CellSlot == 32

\* where the header of page n starts and, for interior pages (those with a
\* rightmost child), where its pointer array starts, from the page start
StoredHeader(n) == IF n = 1 THEN 100 ELSE 0
StoredArray(n) == StoredHeader(n) + (IF pages[n].right # 0 THEN 12 ELSE 8)

\* the offset stored in the pointer array for place i
StoredPointer(i) == pageSize - CellSlot * i

PageByte(n, rel) ==
  LET pg    == pages[n]
      h     == StoredHeader(n)
      arr   == StoredArray(n)
      count == Len(pg.cells)
  IN  IF rel = h THEN pg.type
      ELSE IF rel = h + 3 THEN count \div 256
      ELSE IF rel = h + 4 THEN count % 256
      ELSE IF pg.right # 0 /\ rel >= h + 8 /\ rel <= h + 11 THEN U32BE(pg.right)[rel - h - 7]
      ELSE IF rel >= arr /\ rel < arr + 2 * count
      THEN LET ptr == StoredPointer((rel - arr) \div 2 + 1)
           IN  IF (rel - arr) % 2 = 0 THEN ptr \div 256 ELSE ptr % 256
      ELSE IF rel >= pageSize - CellSlot * count
      THEN LET i == (pageSize - rel + CellSlot - 1) \div CellSlot
           IN  At(pg.cells[i], rel - StoredPointer(i))
      ELSE 0

FileByte(position) ==
  LET n == (position \div pageSize) + 1
  IN  IF n \in DOMAIN pages THEN PageByte(n, position % pageSize) ELSE 0

\* the place of the cell that starts at a file position, 0 if none does
CellAt(position) ==
  LET n    == (position \div pageSize) + 1
      back == pageSize - (position % pageSize)
  IN  IF n \in DOMAIN pages /\ back % CellSlot = 0 /\ back \div CellSlot <= Len(pages[n].cells)
           /\ back < pageSize
      THEN back \div CellSlot
      ELSE 0

(***************************************************************************)
(* database/page: the page decoder.  A read past the end of the file       *)
(* leaves the zero-initialised buffer untouched.                           *)
(***************************************************************************)
\* const headerOffset = isPage1 ? 100 : 0, and the position of the header
headerOffset(isPage1) == IF isPage1 THEN 100 ELSE 0
headerPosition(pageOffset, isPage1) == pageOffset + headerOffset(isPage1)

\* the pointer array looked for at byte 8 of the header whatever the page
cellArrayOffsetLeaf(isInterior) == 8

\* const cellArrayOffset = isInterior ? 12 : 8, and the position of the array
cellArrayOffset(isInterior) == IF isInterior THEN 12 ELSE 8
cellArrayPosition(pageOffset, isPage1, isInterior) ==
  pageOffset + headerOffset(isPage1) + cellArrayOffset(isInterior)

\* a cell looked for 100 bytes further on page 1, as its header is
cellPositionShifted(pageOffset, cellOffset) ==
  pageOffset + cellOffset + (IF pageOffset = 0 THEN 100 ELSE 0)

\* the position of a cell: pageOffset + cellOffset
cellPosition(pageOffset, cellOffset) == pageOffset + cellOffset

readPageType(pageOffset, isPage1) == FileByte(headerPosition(pageOffset, isPage1))

\* the cell count: getUint16(3) of the 12 bytes read at the header
readPageHeader(pageOffset, isPage1) ==
  FileByte(headerPosition(pageOffset, isPage1) + 3) * 256
    + FileByte(headerPosition(pageOffset, isPage1) + 4)

\* getUint32(8) of the 12 bytes read at the header
readRightmostPointer(pageOffset, isPage1) ==
  getUint32([ j \in 1 .. 4 |-> FileByte(headerPosition(pageOffset, isPage1) + 7 + j) ], 0)

\* view.getUint16(i * 2) of the array read at its position
getPointer(arrayPosition, i) ==
  FileByte(arrayPosition + 2 * i) * 256 + FileByte(arrayPosition + 2 * i + 1)

\* the pointer array read back to front
readCellPointersReversed(pageOffset, isPage1, cellCount, isInterior) ==
  [ i \in 1 .. cellCount |->
      getPointer(cellArrayPosition(pageOffset, isPage1, isInterior), cellCount - i) ]

readCellPointers(pageOffset, isPage1, cellCount, isInterior) ==
  [ i \in 1 .. cellCount |->
      getPointer(cellArrayPosition(pageOffset, isPage1, isInterior), i - 1) ]

\* fileHandler.read(buffer, 0, length, pageOffset + cellOffset) into a fresh
\* zero-initialised buffer.  The buffer is kept up to the end of the cell
\* that starts there; where no cell starts, for CellSlot bytes.
fileRead(pageOffset, cellOffset, length) ==
  LET position == cellPosition(pageOffset, cellOffset)
  IN  IF CellAt(position) # 0
      THEN Slice(pages[(position \div pageSize) + 1].cells[CellAt(position)], 0, length)
      ELSE [ j \in 1 .. (IF length < CellSlot THEN length ELSE CellSlot) |->
               FileByte(position + j - 1) ]

\* a 2000-byte buffer read at the cell
readCell(pageOffset, cellOffset) == fileRead(pageOffset, cellOffset, 2000)

(***************************************************************************)
(* Activations and the read log.                                           *)
(***************************************************************************)
Frame(pageNum) == [ pageNum |-> pageNum, pc |-> "start", cellCount |-> 0, i |-> 1 ]

Top == stack[Len(stack)]
Below == SubSeq(stack, 1, Len(stack) - 1)
Offset(f) == (f.pageNum - 1) * pageSize
IsPage1(f) == f.pageNum = 1

Running(fn) == status = "running" /\ call.fn = fn /\ Len(stack) > 0

\* the log entry of a read: its kind, the page the activation is on, the
\* place of the cell read (0 for a header read) and the file position
HeaderRead(kind, f, position) == << kind, f.pageNum, 0, position >>
CellRead(f, cellOffset) ==
  << "cell", f.pageNum, CellAt(cellPosition(Offset(f), cellOffset)),
     cellPosition(Offset(f), cellOffset) >>
Emitter(f, cellOffset) == << f.pageNum, CellAt(cellPosition(Offset(f), cellOffset)) >>

\* readPageType, readPageHeader and readCellPointers of one page
HeaderReads(f, isInterior) ==
  << HeaderRead("type", f, headerPosition(Offset(f), IsPage1(f))),
     HeaderRead("header", f, headerPosition(Offset(f), IsPage1(f))),
     HeaderRead("pointers", f, cellArrayPosition(Offset(f), IsPage1(f), isInterior)) >>

\* the activation after the page type has been read: the branch taken
AfterType(f, leafType, interiorType) ==
  LET pageType == readPageType(Offset(f), IsPage1(f))
  IN  IF pageType = leafType
      THEN [ f EXCEPT !.pc = "leaf", !.cellCount = readPageHeader(Offset(f), IsPage1(f)) ]
      ELSE IF pageType = interiorType
      THEN [ f EXCEPT !.pc = "interior", !.cellCount = readPageHeader(Offset(f), IsPage1(f)) ]
      ELSE [ f EXCEPT !.pc = "return" ]

\* the reads of that step: an unrecognised page has only its type read
TypeReads(f, leafType, interiorType) ==
  IF readPageType(Offset(f), IsPage1(f)) \in { leafType, interiorType }
  THEN HeaderReads(f, readPageType(Offset(f), IsPage1(f)) = interiorType)
  ELSE << HeaderRead("type", f, headerPosition(Offset(f), IsPage1(f))) >>

\* the loop over the cell pointers has run out
LoopDone(f) == f.i > f.cellCount

\* a body whose interior branch never gets past its last await
AtEndOfLeaf(f) == f.pc = "leaf" /\ LoopDone(f)

\* the function body has reached its end
AtEnd(f) == IF f.pc = "leaf" THEN LoopDone(f) ELSE f.pc = "return"

(***************************************************************************)
(* database/table: readTableCells, readTableCellsRecursive                 *)
(***************************************************************************)
readTableCells(rootPage) ==
  /\ status = "idle"
  /\ call' = [ fn |-> "readTableCells", rootPage |-> rootPage ]
  /\ stack' = << Frame(rootPage) >>
  /\ rows' = << >>
  /\ status' = "running"
  /\ pages' = FileAfterReads(pages)
  /\ UNCHANGED << select, suspended, rowids, result, reads, emitted >>

\* const pageType = await readPageType(...); the branch's header reads
RTC_ReadPage ==
  /\ Running("readTableCells")
  /\ Top.pc = "start"
  /\ stack' = Append(Below, AfterType(Top, TableLeaf, TableInterior))
  /\ reads' = reads \o TypeReads(Top, TableLeaf, TableInterior)
  /\ pages' = FileAfterReads(pages)
  /\ UNCHANGED << select, suspended, call, rows, rowids, result, status, emitted >>

\* leaf: one turn of the loop: readCell, parseRecord, rows.push
RTC_LeafCell ==
  /\ Running("readTableCells")
  /\ Top.pc = "leaf"
  /\ ~ LoopDone(Top)
  /\ LET cellPointers == readCellPointers(Offset(Top), IsPage1(Top), Top.cellCount, FALSE)
         cellBuffer   == readCell(Offset(Top), cellPointers[Top.i])
         record       == parseRecord(cellBuffer)
     IN  /\ rows' = Append(rows, record)
         /\ emitted' = Append(emitted, Emitter(Top, cellPointers[Top.i]))
         /\ reads' = Append(reads, CellRead(Top, cellPointers[Top.i]))
  /\ stack' = Append(Below, [ Top EXCEPT !.i = @ + 1 ])
  /\ pages' = FileAfterReads(pages)
  /\ UNCHANGED << select, suspended, call, rowids, result, status >>

\* interior: one turn of the loop: read the cell, recurse into its left child
RTC_InteriorCell ==
  /\ Running("readTableCells")
  /\ Top.pc = "interior"
  /\ ~ LoopDone(Top)
  /\ LET cellPointers  == readCellPointers(Offset(Top), IsPage1(Top), Top.cellCount, TRUE)
         cellBuffer    == fileRead(Offset(Top), cellPointers[Top.i], 16)
         leftChildPage == getUint32(cellBuffer, 0)
     IN  /\ reads' = Append(reads, CellRead(Top, cellPointers[Top.i]))
         /\ stack' = Append(Below, [ Top EXCEPT !.i = @ + 1 ]) \o << Frame(leftChildPage) >>
  /\ pages' = FileAfterReads(pages)
  /\ UNCHANGED << select, suspended, call, rows, rowids, result, status, emitted >>

\* the rightmost child forgotten: the activation ends after the cell loop
RTC_RightmostSkipped ==
  /\ Running("readTableCells")
  /\ Top.pc = "interior"
  /\ LoopDone(Top)
  /\ stack' = Append(Below, [ Top EXCEPT !.pc = "return" ])
  /\ pages' = FileAfterReads(pages)
  /\ UNCHANGED << select, suspended, call, rows, rowids, result, status, reads, emitted >>

\* interior, after the loop: readRightmostPointer, recurse into it
RTC_Rightmost ==
  /\ Running("readTableCells")
  /\ Top.pc = "interior"
  /\ LoopDone(Top)
  /\ LET rightmostChild == readRightmostPointer(Offset(Top), IsPage1(Top))
     IN  /\ reads' = Append(reads, HeaderRead("rightmost", Top, headerPosition(Offset(Top), IsPage1(Top))))
         /\ stack' = Append(Below, [ Top EXCEPT !.pc = "return" ]) \o << Frame(rightmostChild) >>
  /\ pages' = FileAfterReads(pages)
  /\ UNCHANGED << select, suspended, call, rows, rowids, result, status, emitted >>

\* the activation ends; the outermost one returns rows to the caller
RTC_Return ==
  /\ Running("readTableCells")
  /\ AtEnd(Top)
  /\ stack' = Below
  /\ status' = IF Len(stack) = 1 THEN "done" ELSE status
  /\ result' = IF Len(stack) = 1 THEN rows ELSE result
  /\ pages' = FileAfterReads(pages)
  /\ UNCHANGED << select, suspended, call, rows, rowids, reads, emitted >>

(***************************************************************************)
(* database/table: readTableCellsFiltered, readTableCellsFilteredRecursive *)
(***************************************************************************)
\* rows is the caller's array: the call appends to what it already holds
readTableCellsFiltered(rootPage, rowidSet, callerRows) ==
  /\ status = "idle"
  /\ call' = [ fn |-> "readTableCellsFiltered", rootPage |-> rootPage,
               rowidSet |-> rowidSet, callerRows |-> callerRows ]
  /\ stack' = << Frame(rootPage) >>
  /\ rows' = callerRows
  /\ emitted' = [ j \in 1 .. Len(callerRows) |-> << 0, 0 >> ]
  /\ status' = "running"
  /\ pages' = FileAfterReads(pages)
  /\ UNCHANGED << select, suspended, rowids, result, reads >>

RTCF_ReadPage ==
  /\ Running("readTableCellsFiltered")
  /\ Top.pc = "start"
  /\ stack' = Append(Below, AfterType(Top, TableLeaf, TableInterior))
  /\ reads' = reads \o TypeReads(Top, TableLeaf, TableInterior)
  /\ pages' = FileAfterReads(pages)
  /\ UNCHANGED << select, suspended, call, rows, rowids, result, status, emitted >>

\* the membership test dropped: every record is pushed
RTCF_KeepAll(rowidSet, record) == TRUE

\* if (rowidSet.has(record.rowid)) rows.push(record)
RTCF_Keep(rowidSet, record) == record.rowid \in rowidSet

RTCF_LeafCell ==
  /\ Running("readTableCellsFiltered")
  /\ Top.pc = "leaf"
  /\ ~ LoopDone(Top)
  /\ LET cellPointers == readCellPointers(Offset(Top), IsPage1(Top), Top.cellCount, FALSE)
         cellBuffer   == readCell(Offset(Top), cellPointers[Top.i])
         record       == parseRecord(cellBuffer)
         keep         == RTCF_Keep(call.rowidSet, record)
     IN  /\ rows' = IF keep THEN Append(rows, record) ELSE rows
         /\ emitted' = IF keep
                       THEN Append(emitted, Emitter(Top, cellPointers[Top.i]))
                       ELSE emitted
         /\ reads' = Append(reads, CellRead(Top, cellPointers[Top.i]))
  /\ stack' = Append(Below, [ Top EXCEPT !.i = @ + 1 ])
  /\ pages' = FileAfterReads(pages)
  /\ UNCHANGED << select, suspended, call, rowids, result, status >>

\* a scan that skips the subtrees whose keys are all outside the key set
RTCF_DescendPruned(rowidSet, cellBuffer, leftChildPage) ==
  IF \E k \in rowidSet : k <= readVarint(cellBuffer, 4)[1]
  THEN << Frame(leftChildPage) >>
  ELSE << >>

\* await readTableCellsFilteredRecursive(..., leftChildPage, rowidSet, rows):
\* the activation entered for an interior cell, whatever its key
RTCF_Descend(rowidSet, cellBuffer, leftChildPage) == << Frame(leftChildPage) >>

RTCF_InteriorCell ==
  /\ Running("readTableCellsFiltered")
  /\ Top.pc = "interior"
  /\ ~ LoopDone(Top)
  /\ LET cellPointers  == readCellPointers(Offset(Top), IsPage1(Top), Top.cellCount, TRUE)
         cellBuffer    == fileRead(Offset(Top), cellPointers[Top.i], 16)
         leftChildPage == getUint32(cellBuffer, 0)
     IN  /\ reads' = Append(reads, CellRead(Top, cellPointers[Top.i]))
         /\ stack' = Append(Below, [ Top EXCEPT !.i = @ + 1 ])
                       \o RTCF_Descend(call.rowidSet, cellBuffer, leftChildPage)
  /\ pages' = FileAfterReads(pages)
  /\ UNCHANGED << select, suspended, call, rows, rowids, result, status, emitted >>

RTCF_Rightmost ==
  /\ Running("readTableCellsFiltered")
  /\ Top.pc = "interior"
  /\ LoopDone(Top)
  /\ LET rightmostChild == readRightmostPointer(Offset(Top), IsPage1(Top))
     IN  /\ reads' = Append(reads, HeaderRead("rightmost", Top, headerPosition(Offset(Top), IsPage1(Top))))
         /\ stack' = Append(Below, [ Top EXCEPT !.pc = "return" ]) \o << Frame(rightmostChild) >>
  /\ pages' = FileAfterReads(pages)
  /\ UNCHANGED << select, suspended, call, rows, rowids, result, status, emitted >>

\* returns nothing: the caller reads its rows array
RTCF_Return ==
  /\ Running("readTableCellsFiltered")
  /\ AtEnd(Top)
  /\ stack' = Below
  /\ status' = IF Len(stack) = 1 THEN "done" ELSE status
  /\ pages' = FileAfterReads(pages)
  /\ UNCHANGED << select, suspended, call, rows, rowids, result, reads, emitted >>

(***************************************************************************)
(* database/table: fetchRowByRowid, fetchRowByRowidRecursive               *)
(***************************************************************************)
fetchRowByRowid(rootPage, targetRowid) ==
  /\ status = "idle"
  /\ call' = [ fn |-> "fetchRowByRowid", rootPage |-> rootPage, targetRowid |-> targetRowid ]
  /\ stack' = << Frame(rootPage) >>
  /\ status' = "running"
  /\ pages' = FileAfterReads(pages)
  /\ UNCHANGED << select, suspended, rows, rowids, result, reads, emitted >>

\* an unrecognised page type falls through to the final return null
FR_ReadPage ==
  /\ Running("fetchRowByRowid")
  /\ Top.pc = "start"
  /\ stack' = Append(Below, AfterType(Top, TableLeaf, TableInterior))
  /\ reads' = reads \o TypeReads(Top, TableLeaf, TableInterior)
  /\ result' = IF AfterType(Top, TableLeaf, TableInterior).pc = "return" THEN Null ELSE result
  /\ pages' = FileAfterReads(pages)
  /\ UNCHANGED << select, suspended, call, rows, rowids, status, emitted >>

\* leaf: one turn of the loop: return the record if its rowid is the target
FR_LeafCell ==
  /\ Running("fetchRowByRowid")
  /\ Top.pc = "leaf"
  /\ ~ LoopDone(Top)
  /\ LET cellPointers == readCellPointers(Offset(Top), IsPage1(Top), Top.cellCount, FALSE)
         cellBuffer   == readCell(Offset(Top), cellPointers[Top.i])
         record       == parseRecord(cellBuffer)
     IN  /\ reads' = Append(reads, CellRead(Top, cellPointers[Top.i]))
         /\ IF record.rowid = call.targetRowid
            THEN /\ result' = record
                 /\ emitted' = << Emitter(Top, cellPointers[Top.i]) >>
                 /\ stack' = Append(Below, [ Top EXCEPT !.pc = "return" ])
            ELSE /\ stack' = Append(Below, [ Top EXCEPT !.i = @ + 1 ])
                 /\ UNCHANGED << result, emitted >>
  /\ pages' = FileAfterReads(pages)
  /\ UNCHANGED << select, suspended, call, rows, rowids, status >>

\* leaf, after the loop: return null
FR_LeafMiss ==
  /\ Running("fetchRowByRowid")
  /\ Top.pc = "leaf"
  /\ LoopDone(Top)
  /\ result' = Null
  /\ stack' = Append(Below, [ Top EXCEPT !.pc = "return" ])
  /\ pages' = FileAfterReads(pages)
  /\ UNCHANGED << select, suspended, call, rows, rowids, status, reads, emitted >>

\* the comparison made strict: targetRowid < key
FR_GoesLeftStrict(targetRowid, key) == targetRowid < key

\* if (targetRowid <= key)
FR_GoesLeft(targetRowid, key) == targetRowid <= key

\* await without return inside the cell loop: the loop goes on to the next
\* cell once the child has returned
FR_NotReturning(f) ==
  IF LoopDone(f) THEN [ f EXCEPT !.pc = "return" ] ELSE [ f EXCEPT !.i = @ + 1 ]

\* return await fetchRowByRowidRecursive(child): the caller's activation has
\* nothing left to do but hand the child's result on
FR_Awaiting(f) == [ f EXCEPT !.pc = "return" ]

\* interior: one turn of the loop: read the cell's key, descend or go on
FR_InteriorCell ==
  /\ Running("fetchRowByRowid")
  /\ Top.pc = "interior"
  /\ ~ LoopDone(Top)
  /\ LET cellPointers  == readCellPointers(Offset(Top), IsPage1(Top), Top.cellCount, TRUE)
         cellBuffer    == fileRead(Offset(Top), cellPointers[Top.i], 16)
         leftChildPage == getUint32(cellBuffer, 0)
         key           == readVarint(cellBuffer, 4)[1]
     IN  /\ reads' = Append(reads, CellRead(Top, cellPointers[Top.i]))
         /\ stack' = IF FR_GoesLeft(call.targetRowid, key)
                     THEN Append(Below, FR_Awaiting(Top)) \o << Frame(leftChildPage) >>
                     ELSE Append(Below, [ Top EXCEPT !.i = @ + 1 ])
  /\ pages' = FileAfterReads(pages)
  /\ UNCHANGED << select, suspended, call, rows, rowids, result, status, emitted >>

\* interior, after the loop: descend into the rightmost child
FR_Rightmost ==
  /\ Running("fetchRowByRowid")
  /\ Top.pc = "interior"
  /\ LoopDone(Top)
  /\ LET rightmostChild == readRightmostPointer(Offset(Top), IsPage1(Top))
     IN  /\ reads' = Append(reads, HeaderRead("rightmost", Top, headerPosition(Offset(Top), IsPage1(Top))))
         /\ stack' = Append(Below, FR_Awaiting(Top)) \o << Frame(rightmostChild) >>
  /\ pages' = FileAfterReads(pages)
  /\ UNCHANGED << select, suspended, call, rows, rowids, result, status, emitted >>

\* the activation returns; result holds the value being returned
FR_Return ==
  /\ Running("fetchRowByRowid")
  /\ Top.pc = "return"
  /\ stack' = Below
  /\ status' = IF Len(stack) = 1 THEN "done" ELSE status
  /\ pages' = FileAfterReads(pages)
  /\ UNCHANGED << select, suspended, call, rows, rowids, result, reads, emitted >>

(***************************************************************************)
(* database/index: scanIndex, scanIndexRecursive                           *)
(***************************************************************************)
scanIndex(rootPage, searchValue) ==
  /\ status = "idle"
  /\ call' = [ fn |-> "scanIndex", rootPage |-> rootPage, searchValue |-> searchValue ]
  /\ stack' = << Frame(rootPage) >>
  /\ rowids' = << >>
  /\ status' = "running"
  /\ pages' = FileAfterReads(pages)
  /\ UNCHANGED << select, suspended, rows, result, reads, emitted >>

SI_ReadPage ==
  /\ Running("scanIndex")
  /\ Top.pc = "start"
  /\ stack' = Append(Below, AfterType(Top, IndexLeaf, IndexInterior))
  /\ reads' = reads \o TypeReads(Top, IndexLeaf, IndexInterior)
  /\ pages' = FileAfterReads(pages)
  /\ UNCHANGED << select, suspended, call, rows, rowids, result, status, emitted >>

\* if (indexedValue === searchValue && rowid !== null)
SI_Matches(entry, searchValue) ==
  entry.indexedValue = searchValue /\ ~ entry.rowid.null

\* leaf: one turn of the loop: parse the entry, push its rowid on a match
SI_LeafCell ==
  /\ Running("scanIndex")
  /\ Top.pc = "leaf"
  /\ ~ LoopDone(Top)
  /\ LET cellPointers == readCellPointers(Offset(Top), IsPage1(Top), Top.cellCount, FALSE)
         cellBuffer   == readCell(Offset(Top), cellPointers[Top.i])
         entry        == parseIndexEntry(cellBuffer, 0)
         match        == SI_Matches(entry, call.searchValue)
     IN  /\ rowids' = IF match THEN Append(rowids, entry.rowid.value) ELSE rowids
         /\ emitted' = IF match
                       THEN Append(emitted, Emitter(Top, cellPointers[Top.i]))
                       ELSE emitted
         /\ reads' = Append(reads, CellRead(Top, cellPointers[Top.i]))
  /\ stack' = Append(Below, [ Top EXCEPT !.i = @ + 1 ])
  /\ pages' = FileAfterReads(pages)
  /\ UNCHANGED << select, suspended, call, rows, result, status >>

\* the comparison made strict: searchValue < keyValue
SI_DescendsStrict(searchValue, keyValue) == StringLess(searchValue, keyValue)

\* if (searchValue <= keyValue): descend into the left child
SI_Descends(searchValue, keyValue) == StringLessEq(searchValue, keyValue)

\* the stop condition never firing: foundGreaterKey stays false
SI_NeverStops(searchValue, keyValue) == FALSE

\* if (searchValue < keyValue): foundGreaterKey = true; break
SI_Stops(searchValue, keyValue) == StringLess(searchValue, keyValue)

\* interior: one turn of the loop.  The activation is left where it will
\* resume once the left child (if descended into) has returned: after the
\* break with foundGreaterKey set, which skips the rightmost child, or at the
\* next cell
SI_InteriorCell ==
  /\ Running("scanIndex")
  /\ Top.pc = "interior"
  /\ ~ LoopDone(Top)
  /\ LET cellPointers  == readCellPointers(Offset(Top), IsPage1(Top), Top.cellCount, TRUE)
         cellBuffer    == fileRead(Offset(Top), cellPointers[Top.i], 1000)
         leftChildPage == getUint32(cellBuffer, 0)
         keyValue      == parseIndexEntry(cellBuffer, 4).indexedValue
         resume        == IF SI_Stops(call.searchValue, keyValue)
                          THEN [ Top EXCEPT !.pc = "return" ]
                          ELSE [ Top EXCEPT !.i = @ + 1 ]
     IN  /\ reads' = Append(reads, CellRead(Top, cellPointers[Top.i]))
         /\ stack' = IF SI_Descends(call.searchValue, keyValue)
                     THEN Append(Below, resume) \o << Frame(leftChildPage) >>
                     ELSE Append(Below, resume)
  /\ pages' = FileAfterReads(pages)
  /\ UNCHANGED << select, suspended, call, rows, rowids, result, status, emitted >>

\* if (!foundGreaterKey): descend into the rightmost child
SI_Rightmost ==
  /\ Running("scanIndex")
  /\ Top.pc = "interior"
  /\ LoopDone(Top)
  /\ LET rightmostChild == readRightmostPointer(Offset(Top), IsPage1(Top))
     IN  /\ reads' = Append(reads, HeaderRead("rightmost", Top, headerPosition(Offset(Top), IsPage1(Top))))
         /\ stack' = Append(Below, [ Top EXCEPT !.pc = "return" ]) \o << Frame(rightmostChild) >>
  /\ pages' = FileAfterReads(pages)
  /\ UNCHANGED << select, suspended, call, rows, rowids, result, status, emitted >>

\* the activation ends; the outermost one returns rowids to the caller
SI_Return ==
  /\ Running("scanIndex")
  /\ AtEnd(Top)
  /\ stack' = Below
  /\ status' = IF Len(stack) = 1 THEN "done" ELSE status
  /\ result' = IF Len(stack) = 1 THEN rowids ELSE result
  /\ pages' = FileAfterReads(pages)
  /\ UNCHANGED << select, suspended, call, rows, rowids, reads, emitted >>

(***************************************************************************)
(* Full and filtered scans of a table B-tree.                              *)
(***************************************************************************)
\* every generated table, with its pointer arrays in key order or reversed
TableFiles ==
  LET ordered == { TablePages(t, TableRoot) : t \in AllTableTrees }
  IN  ordered \cup { ReversePointers(pgs) : pgs \in ordered }

\* the row-key sets a filtered scan is asked for: none, one or two of the
\* small keys, or all of them
RowidSets ==
  { s \in SUBSET (1 .. NumSmallKeys) : Cardinality(s) <= 2 \/ s = 1 .. NumSmallKeys }

\* what the caller's array holds before a filtered scan
CallerRows == { << >>, << [ rowid |-> 0, values |-> << << 122 >> >> ] >> }

Idle ==
  /\ select = NoSelect
  /\ suspended = << >>
  /\ call = NoCall
  /\ stack = << >>
  /\ rows = << >>
  /\ rowids = << >>
  /\ result = NoResult
  /\ status = "idle"
  /\ reads = << >>
  /\ emitted = << >>

InitScan == pages \in TableFiles /\ Idle

NextScan ==
  \/ readTableCells(TableRoot)
  \/ RTC_ReadPage
  \/ RTC_LeafCell
  \/ RTC_InteriorCell
  \/ RTC_Rightmost
  \/ RTC_Return

SpecScan == InitScan /\ [][NextScan]_vars

\* one filtered scan of one file
InitFiltered == pages \in TableFiles /\ Idle

NextFiltered ==
  \/ \E rowidSet \in RowidSets, callerRows \in CallerRows :
       readTableCellsFiltered(TableRoot, rowidSet, callerRows)
  \/ RTCF_ReadPage
  \/ RTCF_LeafCell
  \/ RTCF_InteriorCell
  \/ RTCF_Rightmost
  \/ RTCF_Return

SpecFiltered == InitFiltered /\ [][NextFiltered]_vars

(***************************************************************************)
(* Vocabulary of the properties: the tree a file holds, read off the page  *)
(* bytes without the navigators.                                           *)
(***************************************************************************)
IsLeafType(type) == type \in { TableLeaf, IndexLeaf }
IsInteriorType(type) == type \in { TableInterior, IndexInterior }

\* the children of page n in pointer order, the rightmost child last
ChildrenOf(n) ==
  IF n \in DOMAIN pages /\ IsInteriorType(pages[n].type)
  THEN [ j \in 1 .. Len(pages[n].cells) |->
           ((pages[n].cells[j][1] * 256 + pages[n].cells[j][2]) * 256
              + pages[n].cells[j][3]) * 256 + pages[n].cells[j][4] ]
       \o << pages[n].right >>
  ELSE << >>

\* the pages reachable from page n through child pointers
RECURSIVE ReachableWithin(_, _)
ReachableWithin(n, fuel) ==
  IF fuel = 0 THEN { n }
  ELSE { n } \cup UNION { ReachableWithin(ChildrenOf(n)[j], fuel - 1) :
                          j \in 1 .. Len(ChildrenOf(n)) }

Reachable(root) == ReachableWithin(root, Cardinality(DOMAIN pages))

\* the leaf cells below root, each named << page, place in the pointer array >>
LeafCells(root) ==
  { c \in Reachable(root) \X (1 .. MaxCells + 1) :
      /\ c[1] \in DOMAIN pages
      /\ IsLeafType(pages[c[1]].type)
      /\ c[2] <= Len(pages[c[1]].cells) }

\* the child indices leading from root to page n
RECURSIVE PathWithin(_, _, _)
PathWithin(root, n, fuel) ==
  IF n = root \/ fuel = 0 THEN << >>
  ELSE LET up == { e \in Reachable(root) \X (1 .. MaxCells + 2) :
                     e[2] <= Len(ChildrenOf(e[1])) /\ ChildrenOf(e[1])[e[2]] = n }
       IN  IF up = { } THEN << >>
           ELSE LET e == CHOOSE x \in up : TRUE
                IN  PathWithin(root, e[1], fuel - 1) \o << e[2] >>

\* the place of a cell in the depth-first order: path to its page, then its index
CellPath(root, c) == PathWithin(root, c[1], Cardinality(DOMAIN pages)) \o << c[2] >>

\* strict lexicographic order on sequences of numbers
RECURSIVE LexLess(_, _)
LexLess(a, b) ==
  IF Len(b) = 0 THEN FALSE
  ELSE IF Len(a) = 0 THEN TRUE
  ELSE IF a[1] # b[1] THEN a[1] < b[1]
  ELSE LexLess(Tail(a), Tail(b))

\* the number of places of sequence q that hold x
Occurrences(q, x) == Cardinality({ j \in 1 .. Len(q) : q[j] = x })

DoneWith(fn) == status = "done" /\ call.fn = fn

(***************************************************************************)
(* Full scan.                                                              *)
(***************************************************************************)
\* C1: when readTableCells returns, its result holds exactly one row per
\* leaf cell of every leaf page reachable from the root: every leaf cell was
\* decoded into exactly one row, and every row is the record of a leaf cell.
C1_FullScanComplete ==
  DoneWith("readTableCells") =>
    /\ result = rows
    /\ Len(rows) = Len(emitted)
    /\ \A c \in LeafCells(call.rootPage) : Occurrences(emitted, c) = 1
    /\ \A j \in 1 .. Len(emitted) :
         /\ emitted[j] \in LeafCells(call.rootPage)
         /\ rows[j] = parseRecord(pages[emitted[j][1]].cells[emitted[j][2]])

\* a full scan has returned the rows of a tree with an interior root whose
\* leaves hold at least three cells
C1_Witness ==
  /\ DoneWith("readTableCells")
  /\ pages[call.rootPage].type = TableInterior
  /\ Cardinality(LeafCells(call.rootPage)) >= 3
  /\ Len(result) >= 3

\* C2: the rows of a full scan come in depth-first pointer order: a row comes
\* before another exactly when its cell's path (child indices from the root,
\* the rightmost child last, then the place in the leaf's pointer array) is
\* the smaller one; row keys play no part.
C2_FullScanOrder ==
  DoneWith("readTableCells") =>
    \A j, k \in 1 .. Len(emitted) :
      j < k => LexLess(CellPath(call.rootPage, emitted[j]), CellPath(call.rootPage, emitted[k]))

\* a full scan has returned rows in an order that is not ascending row key,
\* from a tree of height three
C2_Witness ==
  /\ DoneWith("readTableCells")
  /\ \E j \in 1 .. Len(rows) - 1 : rows[j].rowid > rows[j + 1].rowid /\ rows[j + 1].rowid > 0
  /\ \E c \in LeafCells(call.rootPage) : Len(CellPath(call.rootPage, c)) = 3

(***************************************************************************)
(* Filtered scan.                                                          *)
(***************************************************************************)
\* the rows a call has appended to the caller's array, and their cells
Appended(q) == SubSeq(q, Len(call.callerRows) + 1, Len(q))

\* C6: when readTableCellsFiltered returns, the caller's array holds what it
\* held before, followed by the records of exactly those leaf cells whose
\* decoded row key is in the key set, once each, in depth-first pointer order
\* (the order of the full scan); no row with a key outside the set is added.
C6_FilteredScan ==
  DoneWith("readTableCellsFiltered") =>
    /\ Len(rows) = Len(emitted)
    /\ SubSeq(rows, 1, Len(call.callerRows)) = call.callerRows
    /\ \A c \in LeafCells(call.rootPage) :
         Occurrences(Appended(emitted), c) =
           IF parseRecord(pages[c[1]].cells[c[2]]).rowid \in call.rowidSet THEN 1 ELSE 0
    /\ \A j \in Len(call.callerRows) + 1 .. Len(emitted) :
         /\ emitted[j] \in LeafCells(call.rootPage)
         /\ rows[j] = parseRecord(pages[emitted[j][1]].cells[emitted[j][2]])
         /\ rows[j].rowid \in call.rowidSet
         /\ \A k \in j + 1 .. Len(emitted) :
              LexLess(CellPath(call.rootPage, emitted[j]), CellPath(call.rootPage, emitted[k]))

\* a filtered scan over several leaves has kept two rows and dropped another,
\* appending to an array that already held a row
C6_Witness ==
  /\ DoneWith("readTableCellsFiltered")
  /\ pages[call.rootPage].type = TableInterior
  /\ Len(call.callerRows) = 1
  /\ Len(rows) = 3
  /\ Cardinality(LeafCells(call.rootPage)) > 2

(***************************************************************************)
(* Point lookups in a table B-tree.  Every file is a well-formed table     *)
(* B-tree: pointer arrays in ascending key order, the key of an interior   *)
(* cell the largest key of its left subtree.                               *)
(***************************************************************************)
OrderedTableFiles == { TablePages(t, TableRoot) : t \in AllTableTrees }

\* the row keys looked up: the small keys and a miss on either side of them
Targets == 0 .. (NumSmallKeys + 1)

InitFetch == pages \in OrderedTableFiles /\ Idle

NextFetch ==
  \/ \E targetRowid \in Targets : fetchRowByRowid(TableRoot, targetRowid)
  \/ FR_ReadPage
  \/ FR_LeafCell
  \/ FR_LeafMiss
  \/ FR_InteriorCell
  \/ FR_Rightmost
  \/ FR_Return

SpecFetch == InitFetch /\ [][NextFetch]_vars

\* the length of the varint at buf[offset] and its 7-bit digits, most
\* significant first, as the file format defines them (at most 8 bytes here)
RECURSIVE VarintLength(_, _)
VarintLength(buf, offset) ==
  IF At(buf, offset) < 128 THEN 1 ELSE 1 + VarintLength(buf, offset + 1)

VarintDigits(buf, offset) ==
  [ j \in 1 .. VarintLength(buf, offset) |-> At(buf, offset + j - 1) % 128 ]

\* the row key a table-leaf cell stores: the varint after the payload length
StoredRowKey(cell) == VarintDigits(cell, VarintLength(cell, 0))

\* the digits of a number below 128
SmallDigits(k) == << k >>

InReads(e) == \E j \in 1 .. Len(reads) : SubSeq(reads[j], 1, 3) = e

\* the pages whose type byte was read, in order
PagesRead == [ j \in 1 .. Len(SelectSeq(reads, LAMBDA e : e[1] = "type")) |->
                 SelectSeq(reads, LAMBDA e : e[1] = "type")[j][2] ]

\* the children of page n whose type byte was read, by place among the children
ChildrenRead(n) ==
  { j \in 1 .. Len(ChildrenOf(n)) : InReads(<< "type", ChildrenOf(n)[j], 0 >>) }

\* the cells of page n that were read
CellsRead(n) == { i \in 1 .. Len(pages[n].cells) : InReads(<< "cell", n, i >>) }

\* the key fetchRowByRowidRecursive reads from the i-th cell of interior page n
InteriorKey(n, i) == readVarint(pages[n].cells[i], 4)[1]

\* the first cell of interior page n, in pointer order, whose key is >= target
FirstAtLeast(n, target) ==
  { i \in 1 .. Len(pages[n].cells) :
      /\ target <= InteriorKey(n, i)
      /\ \A h \in 1 .. i - 1 : InteriorKey(n, h) < target }

TableInteriorPages == { n \in DOMAIN pages : pages[n].type = TableInterior }

(***************************************************************************)
(* Point lookup.                                                           *)
(***************************************************************************)
\* C3: on a well-formed table B-tree, fetchRowByRowid(root, k) returns the
\* row of the leaf cell that stores row key k when there is one, and null
\* when no leaf cell stores row key k.
C3_PointLookup ==
  DoneWith("fetchRowByRowid") =>
    LET holders == { c \in LeafCells(call.rootPage) :
                       StoredRowKey(pages[c[1]].cells[c[2]]) = SmallDigits(call.targetRowid) }
    IN  IF holders = { }
        THEN result = Null
        ELSE /\ result # Null
             /\ result.rowid = call.targetRowid
             /\ emitted \in { << c >> : c \in holders }
             /\ result.values = parseRecord(pages[emitted[1][1]].cells[emitted[1][2]]).values

C5_SinglePath ==
  call.fn = "fetchRowByRowid" =>
    /\ \A n \in DOMAIN pages : Cardinality(ChildrenRead(n)) <= 1
    /\ \A j \in 1 .. Len(PagesRead) :
         IF j = 1 THEN PagesRead[j] = call.rootPage
         ELSE \E h \in 1 .. Len(ChildrenOf(PagesRead[j - 1])) :
                ChildrenOf(PagesRead[j - 1])[h] = PagesRead[j]

\* a lookup has found its key under the rightmost child of a root with two
\* cells, having read neither of the earlier children
C5_Witness ==
  /\ DoneWith("fetchRowByRowid")
  /\ result # Null
  /\ Len(pages[call.rootPage].cells) = 2
  /\ pages[call.rootPage].type = TableInterior
  /\ ChildrenRead(call.rootPage) = { 3 }
  /\ Len(PagesRead) = 3

(***************************************************************************)
(* Equality scans of an index B-tree.  Every file is a well-formed index   *)
(* on a text column or on an integer column.                               *)
(***************************************************************************)
IndexFiles == IndexFilesOver(TextEntries) \cup IndexFilesOver(IntEntries)

\* the values searched for: "a", "b", "c", "2", "9", "10"
SearchValues == { << 97 >>, << 98 >>, << 99 >>, << 50 >>, << 57 >>, << 49, 48 >> }

InitIndex == pages \in IndexFiles /\ Idle

NextIndex ==
  \/ \E searchValue \in SearchValues : scanIndex(IndexRoot, searchValue)
  \/ SI_ReadPage
  \/ SI_LeafCell
  \/ SI_InteriorCell
  \/ SI_Rightmost
  \/ SI_Return

SpecIndex == InitIndex /\ [][NextIndex]_vars

(***************************************************************************)
(* Index scan.                                                             *)
(***************************************************************************)
\* every cell below root, leaf or interior
AllCells(root) ==
  { c \in Reachable(root) \X (1 .. MaxCells + 1) :
      c[1] \in DOMAIN pages /\ c[2] <= Len(pages[c[1]].cells) }

AllEntries ==
  { TextEntries[j] : j \in 1 .. Len(TextEntries) } \cup { IntEntries[j] : j \in 1 .. Len(IntEntries) }

\* the index entry cell c stores (an interior cell after its child pointer)
StoredEntry(c) ==
  LET cell   == pages[c[1]].cells[c[2]]
      record == IF IsInteriorType(pages[c[1]].type) THEN SubSeq(cell, 5, Len(cell)) ELSE cell
  IN  CHOOSE e \in AllEntries : IndexLeafCell(e) = record

\* the first indexed column of an entry, as the string it is searched by
FirstColumn(e) == IF e.isInt THEN NumToString(e.int) ELSE e.text

\* the key scanIndexRecursive reads from the i-th cell of interior page n
IndexInteriorKey(n, i) == parseIndexEntry(Slice(pages[n].cells[i], 0, 1000), 4).indexedValue

\* the first cell of interior page n whose key is strictly greater than v
FirstGreater(n, v) ==
  { i \in 1 .. Len(pages[n].cells) :
      /\ StringLess(v, IndexInteriorKey(n, i))
      /\ \A h \in 1 .. i - 1 : ~ StringLess(v, IndexInteriorKey(n, h)) }

\* the last cell of interior page n the loop reaches
LastExamined(n, v) ==
  IF FirstGreater(n, v) = { } THEN Len(pages[n].cells) ELSE CHOOSE i \in FirstGreater(n, v) : TRUE

IndexInteriorPages == { n \in DOMAIN pages : pages[n].type = IndexInterior }

\* C7: scanIndex(root, v) returns the row key of every index entry stored
\* in the tree, in a leaf cell or in an interior cell, whose first column
\* equals v, once each, and no other row key.
C7_IndexScanComplete ==
  DoneWith("scanIndex") =>
    \A r \in { e.rowid : e \in AllEntries } \cup { result[j] : j \in 1 .. Len(result) } :
      Occurrences(result, r) =
        Cardinality({ c \in AllCells(call.rootPage) :
                        /\ FirstColumn(StoredEntry(c)) = call.searchValue
                        /\ StoredEntry(c).rowid = r })

\* C8: on an index whose cells are in index order, every leaf cell whose
\* first column equals the search value lies on a page the scan has read:
\* no subtree the scan skipped holds a matching leaf cell.
C8_PruningSound ==
  DoneWith("scanIndex") =>
    \A c \in LeafCells(call.rootPage) :
      FirstColumn(StoredEntry(c)) = call.searchValue => InReads(<< "type", c[1], 0 >>)

\* C9: on every index-leaf page the scan has read, each cell whose first
\* column equals the search value has its final column appended as the row
\* key, whatever serial type stores it, and no other cell appends anything.
C9_LeafEmission ==
  DoneWith("scanIndex") =>
    /\ Len(result) = Len(emitted)
    /\ \A c \in LeafCells(call.rootPage) :
         InReads(<< "type", c[1], 0 >>) =>
           Occurrences(emitted, c) =
             IF FirstColumn(StoredEntry(c)) = call.searchValue THEN 1 ELSE 0
    /\ \A j \in 1 .. Len(emitted) : result[j] = StoredEntry(emitted[j]).rowid

\* C10: on an index-interior page the scan reads the cells in pointer order
\* up to and including the first cell whose key is strictly greater than the
\* search value, and no cell after it; the left child of a cell is descended
\* into exactly when the cell is one of those read and searchValue <= its key
\* (the comparison being the one scanIndexRecursive makes, on strings).
C10_InteriorDescent ==
  call.fn = "scanIndex" =>
    /\ \A n \in IndexInteriorPages :
         LET count == Len(pages[n].cells)
             last  == LastExamined(n, call.searchValue)
             due   == { j \in 1 .. last : StringLessEq(call.searchValue, IndexInteriorKey(n, j)) }
         IN  /\ \A i \in CellsRead(n) : i <= last
             /\ \A j \in ChildrenRead(n) : j <= count => j \in due
             /\ (status = "done" /\ InReads(<< "type", n, 0 >>)) =>
                  /\ CellsRead(n) = 1 .. last
                  /\ \A j \in 1 .. count : j \in ChildrenRead(n) <=> j \in due
    /\ \A j, k \in 1 .. Len(reads) :
         ( j < k /\ reads[j][1] = "cell" /\ reads[k][1] = "cell" /\ reads[j][2] = reads[k][2] )
           => reads[j][3] < reads[k][3]

\* a scan has returned after reading both cells of an interior page: it
\* passed the first, whose key is less than the search value, without
\* descending, and descended at the second
C10_Witness ==
  /\ DoneWith("scanIndex")
  /\ \E n \in IndexInteriorPages :
       /\ Len(pages[n].cells) = 2
       /\ CellsRead(n) = { 1, 2 }
       /\ 1 \notin ChildrenRead(n)
       /\ 2 \in ChildrenRead(n)

\* a scan has returned after stopping at the first of two cells of an
\* interior page, whose key is strictly greater than the search value
C10_StopReached ==
  /\ DoneWith("scanIndex")
  /\ \E n \in IndexInteriorPages :
       /\ Len(pages[n].cells) = 2
       /\ FirstGreater(n, call.searchValue) = { 1 }
       /\ CellsRead(n) = { 1 }
       /\ ChildrenRead(n) = { 1 }

\* the place of the rightmost child among the children of page n
RightmostPlace(n) == Len(pages[n].cells) + 1

\* C11: on an index-interior page the rightmost pointer is read, and the
\* rightmost child descended into, exactly when no cell of the page has a key
\* strictly greater than the search value (the comparison being the one
\* scanIndexRecursive makes, on strings); once the stop condition has fired
\* the rightmost child is never read.
C11_RightmostRule ==
  call.fn = "scanIndex" =>
    \A n \in IndexInteriorPages :
      LET stops == FirstGreater(n, call.searchValue) # { }
      IN  /\ stops => ~ InReads(<< "rightmost", n, 0 >>)
          /\ stops => RightmostPlace(n) \notin ChildrenRead(n)
          /\ (status = "done" /\ InReads(<< "type", n, 0 >>) /\ ~ stops) =>
               /\ InReads(<< "rightmost", n, 0 >>)
               /\ RightmostPlace(n) \in ChildrenRead(n)

\* a scan has returned after descending into the rightmost child of the
\* root, no key of the root being greater than the search value, and after
\* stopping in that child, an interior page, without reading its rightmost child
C11_Witness ==
  /\ DoneWith("scanIndex")
  /\ pages[call.rootPage].type = IndexInterior
  /\ FirstGreater(call.rootPage, call.searchValue) = { }
  /\ RightmostPlace(call.rootPage) \in ChildrenRead(call.rootPage)
  /\ \E n \in IndexInteriorPages :
       /\ n = pages[call.rootPage].right
       /\ FirstGreater(n, call.searchValue) # { }
       /\ InReads(<< "type", n, 0 >>)
       /\ ~ InReads(<< "type", pages[n].right, 0 >>)

(***************************************************************************)
(* Damaged files: a page whose type byte is none of the four page types,   *)
(* or a file that ends before a page a pointer names (a read past the end  *)
(* of the file leaves the zero-initialised buffer untouched: type 0).      *)
(***************************************************************************)
\* page n given a type byte that is no page type
Retyped(pgs, n) == [ pgs EXCEPT ![n].type = 7 ]

\* the file without its last page
Truncated(pgs) ==
  LET last == CHOOSE n \in DOMAIN pgs : \A m \in DOMAIN pgs : m <= n
  IN  [ n \in DOMAIN pgs \ { last } |-> pgs[n] ]

\* two-level table and index B-trees, damaged in one place
DamagedFiles ==
  LET whole == { TablePages(t, TableRoot) : t \in TableTrees(2, 1, NumSmallKeys) }
               \cup { IndexPages(t, IndexRoot, TextEntries) :
                        t \in IndexTrees(2, 1, Len(TextEntries)) }
  IN  { Retyped(pgs, n) : << pgs, n >> \in { x \in whole \X (1 .. 2 * MaxCells + 4) :
                                               x[2] \in DOMAIN x[1] } }
      \cup { Truncated(pgs) : pgs \in whole }

InitDamaged == pages \in DamagedFiles /\ Idle

NextDamaged ==
  \/ readTableCells(TableRoot)
  \/ RTC_ReadPage
  \/ RTC_LeafCell
  \/ RTC_InteriorCell
  \/ RTC_Rightmost
  \/ RTC_Return
  \/ \E rowidSet \in RowidSets : readTableCellsFiltered(TableRoot, rowidSet, << >>)
  \/ RTCF_ReadPage
  \/ RTCF_LeafCell
  \/ RTCF_InteriorCell
  \/ RTCF_Rightmost
  \/ RTCF_Return
  \/ \E targetRowid \in Targets : fetchRowByRowid(TableRoot, targetRowid)
  \/ FR_ReadPage
  \/ FR_LeafCell
  \/ FR_LeafMiss
  \/ FR_InteriorCell
  \/ FR_Rightmost
  \/ FR_Return
  \/ \E searchValue \in { << 97 >>, << 98 >> } : scanIndex(IndexRoot, searchValue)
  \/ SI_ReadPage
  \/ SI_LeafCell
  \/ SI_InteriorCell
  \/ SI_Rightmost
  \/ SI_Return

SpecDamaged == InitDamaged /\ [][NextDamaged]_vars

\* the four page types of the file format
PageTypes == { TableLeaf, TableInterior, IndexLeaf, IndexInterior }

\* the type byte of page n as a read of the file returns it
TypeByte(n) == IF n \in DOMAIN pages THEN pages[n].type ELSE 0

\* C12: a traversal that reaches a page whose type byte is none of 0x0d,
\* 0x05, 0x0a, 0x02 ends in a decode error: no traversal that has read such
\* a type byte returns a result.
C12_HardError ==
  status = "done" =>
    \A j \in 1 .. Len(reads) : reads[j][1] = "type" => TypeByte(reads[j][2]) \in PageTypes

(***************************************************************************)
(* The decoders on their own: readVarint, getSerialTypeSize,               *)
(* parseSerialValue, parseIndexValue, parseRecord and parseIndexEntry are  *)
(* each called once on an input drawn from a bounded set; call holds the   *)
(* arguments and result what the function returned.                        *)
(***************************************************************************)
\* the largest serial-type code getSerialTypeSize is called with
MaxSerialType == 64

\* the largest number of columns of a generated record
MaxColumns == 3

\* the seven payload bits of the bytes of a generated varint of n bytes
\* (2^31 - 1 is 87 ff ff ff 7f and 2^31 is 88 80 80 80 00), and the values of
\* a ninth byte
Septets(n) ==
  IF n <= 4 THEN { 0, 1, 127 } ELSE IF n = 5 THEN { 0, 7, 8, 127 } ELSE { 0, 127 }

Octets == { 0, 1, 128, 255 }

\* every varint of n bytes over these: the high bit set on each of the
\* first n - 1 bytes, clear on the last unless it is the ninth
VarintCodes(n) ==
  IF n < 9
  THEN { [ j \in 1 .. n |-> IF j < n THEN 128 + f[j] ELSE f[j] ] :
           f \in [ 1 .. n -> Septets(n) ] }
  ELSE { [ j \in 1 .. 9 |-> IF j < 9 THEN 128 + x[1][j] ELSE x[2] ] :
           x \in [ 1 .. 8 -> Septets(n) ] \X Octets }

\* a varint in a buffer: after nothing or one byte, and followed by a byte
\* whose high bit is set
VarintInputs ==
  { [ buffer |-> x[2] \o x[1] \o << 255 >>, offset |-> Len(x[2]) ] :
      x \in ( UNION { VarintCodes(n) : n \in 1 .. 9 } ) \X { << >>, << 129 >> } }

Call_readVarint ==
  /\ status = "idle"
  /\ \E in \in VarintInputs :
       /\ call' = [ fn |-> "readVarint", buffer |-> in.buffer, offset |-> in.offset ]
       /\ result' = readVarint(in.buffer, in.offset)
  /\ status' = "done"
  /\ UNCHANGED << pages, select, suspended, stack, rows, rowids, reads, emitted >>

Call_getSerialTypeSize ==
  /\ status = "idle"
  /\ \E serialType \in 0 .. MaxSerialType :
       /\ call' = [ fn |-> "getSerialTypeSize", serialType |-> serialType ]
       /\ result' = getSerialTypeSize(serialType)
  /\ status' = "done"
  /\ UNCHANGED << pages, select, suspended, stack, rows, rowids, reads, emitted >>

\* a column of a generated record: its serial type and its bytes
Column(type, body) == [ type |-> type, body |-> body ]

\* NULL, the six integer widths (negative and positive), 0.0, the constants
\* 0 and 1, a reserved code, a one-byte blob, a two-character text and a text
\* whose serial type takes a two-byte varint
Columns ==
  { Column(0, << >>), Column(1, << 255 >>), Column(2, << 1, 0 >>),
    Column(3, << 255, 255, 255 >>), Column(3, << 127, 255, 255 >>),
    Column(4, << 0, 0, 1, 0 >>), Column(5, << 255, 255, 255, 255, 255, 254 >>),
    Column(6, << 0, 0, 0, 0, 0, 0, 0, 7 >>), Column(7, << 0, 0, 0, 0, 0, 0, 0, 0 >>),
    Column(8, << >>), Column(9, << >>), Column(10, << >>),
    Column(14, << 120 >>), Column(17, << 97, 98 >>),
    Column(131, [ j \in 1 .. 59 |-> 120 ]) }

ColumnSeqs == UNION { [ 1 .. n -> Columns ] : n \in 0 .. MaxColumns }

\* the varint of a number below 16384
VarintOf(n) == IF n < 128 THEN << n >> ELSE << 128 + (n \div 128), n % 128 >>

RECURSIVE ConcatTypes(_, _)
ConcatTypes(cols, n) ==
  IF n = 0 THEN << >> ELSE ConcatTypes(cols, n - 1) \o VarintOf(cols[n].type)

RECURSIVE ConcatBodies(_, _)
ConcatBodies(cols, n) ==
  IF n = 0 THEN << >> ELSE ConcatBodies(cols, n - 1) \o cols[n].body

\* a record: header length (counting its own byte), serial types, bodies
RecordOf(cols) ==
  LET types == ConcatTypes(cols, Len(cols))
  IN  << 1 + Len(types) >> \o types \o ConcatBodies(cols, Len(cols))

\* a table-leaf cell with row key 5, and an index cell: the payload length
\* comes first
TableCellOf(cols) == VarintOf(Len(RecordOf(cols))) \o << 5 >> \o RecordOf(cols)
IndexCellOf(cols) == VarintOf(Len(RecordOf(cols))) \o RecordOf(cols)

\* the byte values the integer patterns are made of
EdgeBytes == { 0, 1, 127, 128, 255 }

\* every 3-byte pattern over these, and the 6-byte patterns over these whose
\* value lies between -2^31 and 2^31 - 1
Patterns3 == [ 1 .. 3 -> EdgeBytes ]
Patterns6 ==
  { << 0, 0 >> \o p : p \in { q \in [ 1 .. 4 -> EdgeBytes ] : q[1] < 128 } }
  \cup { << 255, 255 >> \o p : p \in { q \in [ 1 .. 4 -> EdgeBytes ] : q[1] >= 128 } }

\* an integer of serial type 3 or 5 in a buffer, after nothing or one byte
IntegerInputs ==
  { [ buffer |-> x[2] \o x[1], offset |-> Len(x[2]), serialType |-> 3 ] :
      x \in Patterns3 \X { << >>, << 129 >> } }
  \cup { [ buffer |-> x[2] \o x[1], offset |-> Len(x[2]), serialType |-> 5 ] :
           x \in Patterns6 \X { << >>, << 129 >> } }

\* index cells: every generated record, and a text followed by a row key of
\* serial type 3 or 5 in every pattern
IndexCells ==
  { IndexCellOf(cols) : cols \in ColumnSeqs }
  \cup { IndexCellOf(<< Column(15, << 97 >>), Column(3, p) >>) : p \in Patterns3 }
  \cup { IndexCellOf(<< Column(15, << 97 >>), Column(5, p) >>) : p \in Patterns6 }

Call_parseSerialValue ==
  /\ status = "idle"
  /\ \E in \in IntegerInputs :
       /\ call' = [ fn |-> "parseSerialValue", buffer |-> in.buffer, offset |-> in.offset,
                    serialType |-> in.serialType ]
       /\ result' = parseSerialValue(in.buffer, in.offset, in.serialType)
  /\ status' = "done"
  /\ UNCHANGED << pages, select, suspended, stack, rows, rowids, reads, emitted >>

Call_parseIndexValue ==
  /\ status = "idle"
  /\ \E in \in IntegerInputs :
       /\ call' = [ fn |-> "parseIndexValue", buffer |-> in.buffer, offset |-> in.offset,
                    serialType |-> in.serialType ]
       /\ result' = parseIndexValue(in.buffer, in.offset, in.serialType)
  /\ status' = "done"
  /\ UNCHANGED << pages, select, suspended, stack, rows, rowids, reads, emitted >>

Call_parseRecord ==
  /\ status = "idle"
  /\ \E cols \in ColumnSeqs :
       /\ call' = [ fn |-> "parseRecord", buffer |-> TableCellOf(cols) ]
       /\ result' = parseRecord(TableCellOf(cols))
  /\ status' = "done"
  /\ UNCHANGED << pages, select, suspended, stack, rows, rowids, reads, emitted >>

\* an index-leaf cell is parsed from its start, an index-interior cell after
\* its four-byte child pointer
Call_parseIndexEntry ==
  /\ status = "idle"
  /\ \E cell \in IndexCells, startOffset \in { 0, 4 } :
       LET cellBuffer == IF startOffset = 4 THEN U32BE(3) \o cell ELSE cell
       IN  /\ call' = [ fn |-> "parseIndexEntry", buffer |-> cellBuffer,
                        startOffset |-> startOffset ]
           /\ result' = parseIndexEntry(cellBuffer, startOffset)
  /\ status' = "done"
  /\ UNCHANGED << pages, select, suspended, stack, rows, rowids, reads, emitted >>

\* no file is involved
InitCodec == pages = << >> /\ Idle

NextCodec ==
  \/ Call_readVarint
  \/ Call_getSerialTypeSize
  \/ Call_parseSerialValue
  \/ Call_parseIndexValue
  \/ Call_parseRecord
  \/ Call_parseIndexEntry

SpecCodec == InitCodec /\ [][NextCodec]_vars

(***************************************************************************)
(* Varints.  The value a varint stands for can exceed what fits a machine  *)
(* integer here, so it is written as its binary digits, most significant   *)
(* first, without leading zeros.                                           *)
(***************************************************************************)
\* the number of bytes of the varint at offset: up to and including the
\* first of the first eight bytes whose high bit is clear, or nine
VarintExtent(buffer, offset) ==
  LET clear == { i \in 1 .. 8 : At(buffer, offset + i - 1) < 128 }
  IN  IF clear = { } THEN 9 ELSE CHOOSE i \in clear : \A h \in clear : i <= h

\* the low w bits of byte b, most significant first
BitsOfByte(b, w) == [ k \in 1 .. w |-> (b \div (2 ^ (w - k))) % 2 ]

RECURSIVE VarintBitsFrom(_, _, _, _)
VarintBitsFrom(buffer, offset, j, n) ==
  IF j > n THEN << >>
  ELSE BitsOfByte(At(buffer, offset + j - 1), IF j = 9 THEN 8 ELSE 7)
         \o VarintBitsFrom(buffer, offset, j + 1, n)

RECURSIVE StripZeros(_)
StripZeros(bits) ==
  IF Len(bits) > 0 /\ bits[1] = 0 THEN StripZeros(Tail(bits)) ELSE bits

\* the integer the varint at offset encodes
VarintValueBits(buffer, offset) ==
  StripZeros(VarintBitsFrom(buffer, offset, 1, VarintExtent(buffer, offset)))

RECURSIVE BitsOfNat(_)
BitsOfNat(n) == IF n = 0 THEN << >> ELSE BitsOfNat(n \div 2) \o << n % 2 >>

\* C13: for every varint encoding of an integer v in [0, 2^64), readVarint
\* returns v: a number that is not negative and whose binary digits are the
\* payload bits of the encoding (seven of each of the first eight bytes,
\* eight of the ninth).
C13_VarintRoundTrip ==
  DoneWith("readVarint") =>
    /\ result[1] >= 0
    /\ BitsOfNat(result[1]) = VarintValueBits(call.buffer, call.offset)

\* C14: bytesRead is between 1 and 9 and is the place of the first byte,
\* among the first eight, whose high bit is clear, or 9 when there is none;
\* what readVarint returns depends on no byte after the ninth.
C14_VarintLength ==
  DoneWith("readVarint") =>
    /\ result[2] \in 1 .. 9
    /\ result[2] = VarintExtent(call.buffer, call.offset)
    /\ result = readVarint(Slice(call.buffer, call.offset, call.offset + 9), 0)

\* a varint whose first eight bytes all have the high bit set was read from
\* a buffer that goes on after the ninth byte with another such byte
C14_Witness ==
  /\ DoneWith("readVarint")
  /\ \A i \in 0 .. 7 : At(call.buffer, call.offset + i) >= 128
  /\ At(call.buffer, call.offset + 9) >= 128
  /\ result[2] = 9

(***************************************************************************)
(* Serial types.                                                           *)
(***************************************************************************)
\* the byte width the file format gives serial-type code: the integer
\* widths by code, then float, blob and text
IntegerWidths == << 1, 2, 3, 4, 6, 8 >>

FormatWidth(code) ==
  CASE code \in { 0, 8, 9 }             -> 0
    [] code \in 1 .. 6                  -> IntegerWidths[code]
    [] code = 7                         -> 8
    [] code >= 12 /\ code % 2 = 0       -> (code - 12) \div 2
    [] code >= 13 /\ code % 2 = 1       -> (code - 13) \div 2

TableHeaderStart(buffer) ==
  VarintExtent(buffer, 0) + VarintExtent(buffer, VarintExtent(buffer, 0))

IndexHeaderStart(buffer, startOffset) == startOffset + VarintExtent(buffer, startOffset)

\* the serial types of the header at headerStart, in header order, and the
\* offset of the first byte after them
HeaderTypes(buffer, headerStart) ==
  readSerialTypes(buffer, headerStart + VarintExtent(buffer, headerStart), headerStart,
                  readVarint(buffer, headerStart)[1], << >>)[1]

BodyStart(buffer, headerStart) ==
  readSerialTypes(buffer, headerStart + VarintExtent(buffer, headerStart), headerStart,
                  readVarint(buffer, headerStart)[1], << >>)[2]

\* the widths of the first n columns together
RECURSIVE WidthSum(_, _)
WidthSum(types, n) ==
  IF n = 0 THEN 0 ELSE WidthSum(types, n - 1) + getSerialTypeSize(types[n])

\* the bytes of column i and nothing else: those from body start plus the
\* widths of the columns before it, as many as the width of its serial type
ColumnBytes(buffer, headerStart, i) ==
  LET types == HeaderTypes(buffer, headerStart)
      from  == BodyStart(buffer, headerStart) + WidthSum(types, i - 1)
  IN  Slice(buffer, from, from + getSerialTypeSize(types[i]))

\* C16: the value of each column is decoded from the bytes that start at the
\* body start plus the widths of the columns before it and that are as many
\* as getSerialTypeSize gives for its serial type, and from no other byte:
\* the columns of parseRecord, the first column and the row key (the last
\* column) of parseIndexEntry.
C16_DeclaredWidth ==
  /\ DoneWith("parseRecord") =>
       LET hs    == TableHeaderStart(call.buffer)
           types == HeaderTypes(call.buffer, hs)
       IN  /\ Len(result.values) = Len(types)
           /\ \A i \in 1 .. Len(types) :
                result.values[i] = parseSerialValue(ColumnBytes(call.buffer, hs, i), 0, types[i])
  /\ DoneWith("parseIndexEntry") =>
       LET hs    == IndexHeaderStart(call.buffer, call.startOffset)
           types == HeaderTypes(call.buffer, hs)
           n     == Len(types)
       IN  /\ n >= 1 =>
                result.indexedValue = parseIndexValue(ColumnBytes(call.buffer, hs, 1), 0, types[1])
           /\ n >= 2 =>
                result.rowid = parseIndexRowid(ColumnBytes(call.buffer, hs, n), 0, types[n])

\* a record of three columns has been parsed whose first two columns take
\* bytes and whose third is the text "ab"
C16_Witness ==
  /\ DoneWith("parseRecord")
  /\ Len(result.values) = 3
  /\ \A i \in 1 .. 2 :
       getSerialTypeSize(HeaderTypes(call.buffer, TableHeaderStart(call.buffer))[i]) > 0
  /\ result.values[3] = << 97, 98 >>

(***************************************************************************)
(* Big-endian integers as numbers.                                         *)
(***************************************************************************)
\* the pattern read as an unsigned number, and its one's complement
RECURSIVE Unsigned(_)
Unsigned(p) ==
  IF p = << >> THEN 0 ELSE Unsigned(SubSeq(p, 1, Len(p) - 1)) * 256 + p[Len(p)]

Complement(p) == [ j \in 1 .. Len(p) |-> 255 - p[j] ]

\* b when its top bit is clear, b - 2^(8 * Len(p)) otherwise
SignExtended(p) ==
  IF p[1] < 128 THEN Unsigned(p) ELSE (0 - Unsigned(Complement(p))) - 1

\* C17: an integer of serial type 3 (3 bytes) or 5 (6 bytes) decodes to its
\* pattern b when the top bit is clear and to b - 2^24, b - 2^48 otherwise:
\* as a column value of parseSerialValue and of parseIndexValue, and as the
\* row key that parseIndexEntry reads from the last of two or more columns.
\* The 6-byte patterns are those whose value
\* lies between -2^31 and 2^31 - 1.
C17_SignExtension ==
  /\ DoneWith("parseSerialValue") \/ DoneWith("parseIndexValue") =>
       result = NumToString(SignExtended(
                  Slice(call.buffer, call.offset,
                        call.offset + getSerialTypeSize(call.serialType))))
  /\ DoneWith("parseIndexEntry") =>
       LET hs    == IndexHeaderStart(call.buffer, call.startOffset)
           types == HeaderTypes(call.buffer, hs)
           n     == Len(types)
       IN  n >= 2 /\ types[n] \in { 3, 5 } =>
             result.rowid = Number(SignExtended(ColumnBytes(call.buffer, hs, n)))

\* a row key of six bytes with the top bit set has been read from an index
\* entry, and it is negative
C17_Witness ==
  /\ DoneWith("parseIndexEntry")
  /\ LET hs    == IndexHeaderStart(call.buffer, call.startOffset)
         types == HeaderTypes(call.buffer, hs)
         n     == Len(types)
     IN  /\ n >= 2
         /\ types[n] = 5
         /\ ColumnBytes(call.buffer, hs, n)[1] >= 128
  /\ ~result.rowid.null
  /\ result.rowid.value < 0

(***************************************************************************)
(* The serial-type varints of a record header, found by their high bits.   *)
(***************************************************************************)
\* the offsets at which the varints of [from, end) start, in order
RECURSIVE VarintStarts(_, _, _)
VarintStarts(buffer, from, end) ==
  IF from >= end THEN << >>
  ELSE << from >> \o VarintStarts(buffer, from + VarintExtent(buffer, from), end)

\* those between the end of the header-length varint and header start plus
\* header length
SerialTypeStarts(buffer, headerStart) ==
  VarintStarts(buffer, headerStart + VarintExtent(buffer, headerStart),
               headerStart + readVarint(buffer, headerStart)[1])

\* C18: parseRecord returns as many values as there are serial-type varints
\* between the end of the header-length varint and header start plus header
\* length, and its i-th value is the value of the i-th of these codes decoded
\* from the i-th column of the body: none skipped, duplicated or reordered.
C18_ColumnList ==
  DoneWith("parseRecord") =>
    LET hs     == TableHeaderStart(call.buffer)
        starts == SerialTypeStarts(call.buffer, hs)
    IN  /\ Len(result.values) = Len(starts)
        /\ \A i \in 1 .. Len(starts) :
             result.values[i] =
               parseSerialValue(ColumnBytes(call.buffer, hs, i), 0,
                                readVarint(call.buffer, starts[i])[1])

\* a record of three different columns has been parsed, the second of which
\* has a serial type of two bytes
C18_Witness ==
  /\ DoneWith("parseRecord")
  /\ LET starts == SerialTypeStarts(call.buffer, TableHeaderStart(call.buffer))
     IN  /\ Len(starts) = 3
         /\ starts[3] - starts[2] = 2
  /\ Len(result.values) = 3
  /\ result.values[1] = << 45, 49 >>
  /\ Len(result.values[2]) = 59
  /\ result.values[3] = << 97, 98 >>

(***************************************************************************)
(* The navigators on B-trees rooted at page 1 and at page 2: small table   *)
(* and index trees, every navigator started at the root of the file.       *)
(***************************************************************************)
RootedFiles ==
  UNION { { TablePages(t, root) : t \in TableTrees(2, 1, NumSmallKeys) }
            \cup { IndexPages(t, root, TextEntries) : t \in IndexTrees(2, 1, Len(TextEntries)) }
          : root \in { 1, 2 } }

FileRoot == IF 1 \in DOMAIN pages THEN 1 ELSE 2

InitRooted == pages \in RootedFiles /\ Idle

NextRooted ==
  \/ readTableCells(FileRoot)
  \/ RTC_ReadPage
  \/ RTC_LeafCell
  \/ RTC_InteriorCell
  \/ RTC_Rightmost
  \/ RTC_Return
  \/ \E rowidSet \in { { }, { 1 } } : readTableCellsFiltered(FileRoot, rowidSet, << >>)
  \/ RTCF_ReadPage
  \/ RTCF_LeafCell
  \/ RTCF_InteriorCell
  \/ RTCF_Rightmost
  \/ RTCF_Return
  \/ \E targetRowid \in Targets : fetchRowByRowid(FileRoot, targetRowid)
  \/ FR_ReadPage
  \/ FR_LeafCell
  \/ FR_LeafMiss
  \/ FR_InteriorCell
  \/ FR_Rightmost
  \/ FR_Return
  \/ \E searchValue \in { << 97 >>, << 98 >> } : scanIndex(FileRoot, searchValue)
  \/ SI_ReadPage
  \/ SI_LeafCell
  \/ SI_InteriorCell
  \/ SI_Rightmost
  \/ SI_Return

SpecRooted == InitRooted /\ [][NextRooted]_vars

\* the kinds of read that go to the page header
HeaderKinds == { "type", "header", "rightmost" }

\* the first byte of page n in the file
PageBase(n) == (n - 1) * pageSize

\* how many cells of the page of read j have been read up to read j
CellTurn(j) ==
  Cardinality({ k \in 1 .. j : reads[k][1] = "cell" /\ reads[k][2] = reads[j][2] })

\* a run has ended that read the pointer array and the cells of page 1, an
\* interior page, and those of a leaf page after it
RootedRunDone ==
  /\ status = "done"
  /\ TypeByte(1) \in { TableInterior, IndexInterior }
  /\ \E j, k \in 1 .. Len(reads) :
       /\ reads[j][1] = "pointers" /\ reads[j][2] = 1
       /\ reads[k][1] = "pointers" /\ reads[k][2] > 1
       /\ TypeByte(reads[k][2]) \in { TableLeaf, IndexLeaf }
  /\ \E j, k \in 1 .. Len(reads) :
       /\ reads[j][1] = "cell" /\ reads[j][2] = 1 /\ CellTurn(j) = 2
       /\ reads[k][1] = "cell" /\ reads[k][2] > 1

\* C19: the pointer array of a page is read at the page offset, plus 100 on
\* page 1, plus 12 on an interior page (type 0x05 or 0x02) and 8 on a leaf
\* page: so the navigators pass isInterior for exactly these types.  The
\* offsets come back in the order of the array on disk: the cell read in the
\* k-th turn of the loop over a page is the one at the k-th stored offset.
C19_PointerArray ==
  \A j \in 1 .. Len(reads) :
    LET n == reads[j][2]
    IN  /\ reads[j][1] = "pointers" =>
             reads[j][4] = PageBase(n) + (IF n = 1 THEN 100 ELSE 0)
                             + (IF TypeByte(n) \in { TableInterior, IndexInterior }
                                THEN 12 ELSE 8)
        /\ reads[j][1] = "cell" => reads[j][3] = CellTurn(j)

C19_Witness ==
  /\ RootedRunDone
  /\ call.fn = "readTableCells"

\* C20: every read for page n is addressed from (n - 1) * pageSize.  The
\* reads of the header (type, cell count, rightmost child) and of the
\* pointer array are 100 bytes further if and only if n = 1; a cell is read
\* at the page start plus its stored offset, on page 1 as on any other.
C20_PageAddressing ==
  \A j \in 1 .. Len(reads) :
    LET n     == reads[j][2]
        shift == IF n = 1 THEN 100 ELSE 0
    IN  /\ reads[j][1] \in HeaderKinds => reads[j][4] = PageBase(n) + shift
        /\ reads[j][1] = "pointers" =>
             reads[j][4] \in { PageBase(n) + shift + 8, PageBase(n) + shift + 12 }
        /\ reads[j][1] = "cell" =>
             reads[j][4] = PageBase(n) + StoredPointer(CellTurn(j))

C20_Witness ==
  /\ RootedRunDone
  /\ call.fn = "fetchRowByRowid"
  /\ \E j \in 1 .. Len(reads) : reads[j][1] = "rightmost" /\ reads[j][2] = 1

(***************************************************************************)
(* database/schema: findTable, findIndex.  Page 1 holds the schema: one    *)
(* table-leaf cell per entry, with the columns type, name, tbl_name,       *)
(* rootpage and sql.                                                       *)
(***************************************************************************)
\* what indexing an array past its end gives; no string equals it
undefined == << 0 - 2 >>

\* values[k], k counted from 0
Elem(values, k) == IF k < Len(values) THEN values[k + 1] ELSE undefined

\* a number | NaN
NaN == [ nan |-> TRUE, value |-> 0 ]
Num(v) == [ nan |-> FALSE, value |-> v ]

\* the decimal digits a string starts with, as a number
RECURSIVE DigitsValue(_, _)
DigitsValue(str, acc) ==
  IF str # << >> /\ str[1] >= 48 /\ str[1] <= 57
  THEN DigitsValue(Tail(str), acc * 10 + (str[1] - 48))
  ELSE acc

\* parseInt: an optional sign and the leading digits; NaN without a digit
parseInt(str) ==
  LET neg  == str # << >> /\ str[1] = 45
      rest == IF str # << >> /\ str[1] \in { 43, 45 } THEN Tail(str) ELSE str
  IN  IF rest = << >> \/ rest[1] < 48 \/ rest[1] > 57 THEN NaN
      ELSE Num(IF neg THEN 0 - DigitsValue(rest, 0) ELSE DigitsValue(rest, 0))

\* the strings 'table' and 'index'
TableWord == << 116, 97, 98, 108, 101 >>
IndexWord == << 105, 110, 100, 101, 120 >>

\* an index entry taken whatever its type column says
FI_MatchesName(values, indexName) == Elem(values, 1) = indexName

\* values[2] === tableName
FT_Matches(values, tableName) == Elem(values, 2) = tableName

\* values[0] === 'index' && values[1] === indexName
FI_Matches(values, indexName) == Elem(values, 0) = IndexWord /\ Elem(values, 1) = indexName

\* Error(`Table ${tableName} not found`), Error(`Index ${indexName} not found`)
TableNotFound(tableName) == [ error |-> << "Table ", tableName, " not found" >> ]
IndexNotFound(indexName) == [ error |-> << "Index ", indexName, " not found" >> ]

\* readPageHeader(fileHandler, 0, true) and readCellPointers(fileHandler, 0,
\* true, cellCount): the activation of the loop over page 1
SchemaFrame == [ pageNum |-> 1, pc |-> "leaf", cellCount |-> readPageHeader(0, TRUE), i |-> 1 ]

SchemaReads ==
  << HeaderRead("header", SchemaFrame, headerPosition(0, TRUE)),
     HeaderRead("pointers", SchemaFrame, cellArrayPosition(0, TRUE, FALSE)) >>

findTable(tableName, includeSql) ==
  /\ status = "idle"
  /\ call' = [ fn |-> "findTable", tableName |-> tableName, includeSql |-> includeSql ]
  /\ stack' = << SchemaFrame >>
  /\ reads' = SchemaReads
  /\ status' = "running"
  /\ pages' = FileAfterReads(pages)
  /\ UNCHANGED << select, suspended, rows, rowids, result, emitted >>

\* one turn of the loop: readCell, parseRecord, return on a match
FT_Cell ==
  /\ Running("findTable")
  /\ ~ LoopDone(Top)
  /\ LET cellPointers == readCellPointers(0, TRUE, Top.cellCount, FALSE)
         cellBuffer   == readCell(0, cellPointers[Top.i])
         values       == parseRecord(cellBuffer).values
     IN  /\ reads' = Append(reads, CellRead(Top, cellPointers[Top.i]))
         /\ IF FT_Matches(values, call.tableName)
            THEN /\ result' = IF call.includeSql
                              THEN [ rootPage |-> parseInt(Elem(values, 3)),
                                     sql |-> Elem(values, 4) ]
                              ELSE [ rootPage |-> parseInt(Elem(values, 3)) ]
                 /\ emitted' = << Emitter(Top, cellPointers[Top.i]) >>
                 /\ stack' = << >>
                 /\ status' = "done"
            ELSE /\ stack' = << [ Top EXCEPT !.i = @ + 1 ] >>
                 /\ UNCHANGED << result, emitted, status >>
  /\ pages' = FileAfterReads(pages)
  /\ UNCHANGED << select, suspended, call, rows, rowids >>

\* after the loop: throw
FT_NotFound ==
  /\ Running("findTable")
  /\ LoopDone(Top)
  /\ result' = TableNotFound(call.tableName)
  /\ stack' = << >>
  /\ status' = "threw"
  /\ pages' = FileAfterReads(pages)
  /\ UNCHANGED << select, suspended, call, rows, rowids, reads, emitted >>

findIndex(indexName) ==
  /\ status = "idle"
  /\ call' = [ fn |-> "findIndex", indexName |-> indexName ]
  /\ stack' = << SchemaFrame >>
  /\ reads' = SchemaReads
  /\ status' = "running"
  /\ pages' = FileAfterReads(pages)
  /\ UNCHANGED << select, suspended, rows, rowids, result, emitted >>

FI_Cell ==
  /\ Running("findIndex")
  /\ ~ LoopDone(Top)
  /\ LET cellPointers == readCellPointers(0, TRUE, Top.cellCount, FALSE)
         cellBuffer   == readCell(0, cellPointers[Top.i])
         values       == parseRecord(cellBuffer).values
     IN  /\ reads' = Append(reads, CellRead(Top, cellPointers[Top.i]))
         /\ IF FI_Matches(values, call.indexName)
            THEN /\ result' = parseInt(Elem(values, 3))
                 /\ emitted' = << Emitter(Top, cellPointers[Top.i]) >>
                 /\ stack' = << >>
                 /\ status' = "done"
            ELSE /\ stack' = << [ Top EXCEPT !.i = @ + 1 ] >>
                 /\ UNCHANGED << result, emitted, status >>
  /\ pages' = FileAfterReads(pages)
  /\ UNCHANGED << select, suspended, call, rows, rowids >>

FI_NotFound ==
  /\ Running("findIndex")
  /\ LoopDone(Top)
  /\ result' = IndexNotFound(call.indexName)
  /\ stack' = << >>
  /\ status' = "threw"
  /\ pages' = FileAfterReads(pages)
  /\ UNCHANGED << select, suspended, call, rows, rowids, reads, emitted >>

(***************************************************************************)
(* Schema pages.  The entries are the tables "t" and "u" and the index "i" *)
(* on "t"; a page holds some of them, each once, in any pointer order.     *)
(***************************************************************************)
SchemaEntry(type, name, tblName, rootpage, sql) ==
  [ type |-> type, name |-> name, tblName |-> tblName, rootpage |-> rootpage, sql |-> sql ]

\* the definition texts are cut to two letters
SchemaEntries ==
  { SchemaEntry(TableWord, << 116 >>, << 116 >>, 2, << 67, 116 >>),
    SchemaEntry(IndexWord, << 105 >>, << 116 >>, 3, << 67, 105 >>),
    SchemaEntry(TableWord, << 117 >>, << 117 >>, 4, << 67, 117 >>) }

Text(str) == Column(13 + 2 * Len(str), str)

\* the cell of an entry: payload length, row key, record
SchemaCell(rowid, e) ==
  LET record == RecordOf(<< Text(e.type), Text(e.name), Text(e.tblName),
                            Column(1, << e.rootpage >>), Text(e.sql) >>)
  IN  VarintOf(Len(record)) \o << rowid >> \o record

\* the sequences without repetition over a set
RECURSIVE Arrangements(_)
Arrangements(S) ==
  { << >> } \cup UNION { { << e >> \o q : q \in Arrangements(S \ { e }) } : e \in S }

SchemaLeaf(entries) ==
  [ type |-> TableLeaf, cells |-> [ i \in 1 .. Len(entries) |-> SchemaCell(i, entries[i]) ],
    right |-> 0 ]

\* page 1 a leaf with the entries; or page 1 an interior page, its entries
\* on the leaf pages 2 and 3 below it
SchemaFiles ==
  { 1 :> SchemaLeaf(entries) : entries \in Arrangements(SchemaEntries) }
  \cup { ( 1 :> [ type |-> TableInterior, cells |-> << TableInteriorCell(2, 1) >>, right |-> 3 ] )
         @@ ( 2 :> SchemaLeaf(<< e >>) ) @@ ( 3 :> SchemaLeaf(<< >>) ) : e \in SchemaEntries }

\* the names asked for: "t", "u", "i" and "x"
SchemaNames == { << 116 >>, << 117 >>, << 105 >>, << 120 >> }

InitSchema == pages \in SchemaFiles /\ Idle

NextSchema ==
  \/ \E tableName \in SchemaNames, includeSql \in BOOLEAN : findTable(tableName, includeSql)
  \/ FT_Cell
  \/ FT_NotFound
  \/ \E indexName \in SchemaNames : findIndex(indexName)
  \/ FI_Cell
  \/ FI_NotFound

SpecSchema == InitSchema /\ [][NextSchema]_vars

\* the entries stored in the cells of a leaf page 1, in pointer order
StoredSchema ==
  IF TypeByte(1) = TableLeaf
  THEN [ i \in 1 .. Len(pages[1].cells) |-> parseRecord(pages[1].cells[i]).values ]
  ELSE << >>

Returned(fn) == call.fn = fn /\ status \in { "done", "threw" }

\* C21: findTable(name) returns the root page, and with includeSql the
\* definition text, of the entry of page 1 that defines the table called
\* name, whatever else the page holds and in whatever pointer order;
\* findIndex(name) returns the root page of the index entry called name.
C21_SchemaLookup ==
  \A i \in 1 .. Len(StoredSchema) :
    LET e == StoredSchema[i]
    IN  /\ ( Returned("findTable") /\ e[1] = TableWord /\ e[2] = call.tableName ) =>
             /\ status = "done"
             /\ result.rootPage = parseInt(e[4])
             /\ call.includeSql => result.sql = e[5]
        /\ ( Returned("findIndex") /\ e[1] = IndexWord /\ e[2] = call.indexName ) =>
             /\ status = "done"
             /\ result = parseInt(e[4])

\* every entry of the page belongs to a table that the page defines
SchemaConsistent ==
  \A i \in 1 .. Len(StoredSchema) :
    \E j \in 1 .. Len(StoredSchema) :
      StoredSchema[j][1] = TableWord /\ StoredSchema[j][2] = StoredSchema[i][3]

\* C22: on a leaf page 1 findTable throws 'Table <name> not found' exactly
\* when no cell of the pointer array is an entry for the table name (on a
\* page that defines the table of each of its entries: when no cell defines
\* a table of that name), and findIndex throws 'Index <name> not found'
\* exactly when no cell is an entry of type 'index' with that name.  Both
\* read page 1 only: its header, its pointer array and cells inside it.
C22_SchemaMiss ==
  /\ ( Returned("findTable") /\ TypeByte(1) = TableLeaf ) =>
       /\ status = "threw" <=>
            ~ \E i \in 1 .. Len(StoredSchema) : StoredSchema[i][3] = call.tableName
       /\ SchemaConsistent =>
            ( status = "threw" <=>
                ~ \E i \in 1 .. Len(StoredSchema) :
                    StoredSchema[i][1] = TableWord /\ StoredSchema[i][2] = call.tableName )
       /\ status = "threw" => result = TableNotFound(call.tableName)
  /\ ( Returned("findIndex") /\ TypeByte(1) = TableLeaf ) =>
       /\ status = "threw" <=>
            ~ \E i \in 1 .. Len(StoredSchema) :
                StoredSchema[i][1] = IndexWord /\ StoredSchema[i][2] = call.indexName
       /\ status = "threw" => result = IndexNotFound(call.indexName)
  /\ call.fn \in { "findTable", "findIndex" } =>
       \A j \in 1 .. Len(reads) :
         /\ reads[j][1] \in { "header", "pointers", "cell" }
         /\ reads[j][2] = 1
         /\ reads[j][4] >= 0 /\ reads[j][4] < pageSize

\* findIndex has thrown for the name "t" after reading the three cells of a
\* page that defines the table "t"
C22_Witness ==
  /\ call.fn = "findIndex"
  /\ status = "threw"
  /\ call.indexName = << 116 >>
  /\ Len(StoredSchema) = 3
  /\ \E i \in 1 .. 3 : StoredSchema[i][1] = TableWord /\ StoredSchema[i][2] = << 116 >>
  /\ Cardinality({ j \in 1 .. Len(reads) : reads[j][1] = "cell" }) = 3

(***************************************************************************)
(* Errors raised inside a traversal.  A read (fileHandler.read rejecting)  *)
(* or the decoding after it may raise an error in whatever the activation  *)
(* does next; the error then leaves one activation after the other unless  *)
(* one of them catches it.                                                 *)
(***************************************************************************)
Navigators == { "readTableCells", "readTableCellsFiltered", "fetchRowByRowid", "scanIndex" }

\* the next thing the activation does is read a page header or a cell
AboutToRead(f) == f.pc = "start" \/ f.pc = "interior" \/ ( f.pc = "leaf" /\ ~ LoopDone(f) )

ReadError == [ error |-> << "read failed" >> ]

\* a try / catch around the body of the cell loop
CatchesInLoop(f) == f.pc \in { "leaf", "interior" } /\ ~ LoopDone(f)

\* the navigators have no try / catch: no activation catches an error
Catches(f) == FALSE

\* the read or the decoding raises
Raise ==
  /\ status = "running"
  /\ call.fn \in Navigators
  /\ Len(stack) > 0
  /\ AboutToRead(Top)
  /\ reads' = Append(reads, << "failed", Top.pageNum, 0, 0 >>)
  /\ result' = ReadError
  /\ status' = "throwing"
  /\ pages' = FileAfterReads(pages)
  /\ UNCHANGED << select, suspended, call, stack, rows, rowids, emitted >>

\* the error reaches the innermost activation: it is caught there and the
\* loop goes on with the next cell, or it leaves the activation; from the
\* outermost activation it leaves for the caller
Unwind ==
  /\ status = "throwing"
  /\ Len(stack) > 0
  /\ IF Catches(Top)
     THEN /\ stack' = Append(Below, [ Top EXCEPT !.i = @ + 1 ])
          /\ status' = "running"
     ELSE /\ stack' = Below
          /\ status' = IF Len(stack) = 1 THEN "threw" ELSE "throwing"
  /\ pages' = FileAfterReads(pages)
  /\ UNCHANGED << select, suspended, call, rows, rowids, result, reads, emitted >>

InitFailing == InitRooted

NextFailing == NextRooted \/ Raise \/ Unwind

SpecFailing == InitFailing /\ [][NextFailing]_vars

\* some read or decoding of the call has raised an error
Failed == \E j \in 1 .. Len(reads) : reads[j][1] = "failed"

\* C23: once a read or the decoding of a page or cell has raised an error
\* in a navigator, nothing more is read (no skipping of the bad cell, no
\* retry), the call never returns a value, and the error leaves every
\* activation until the caller has it.
C23_ErrorPropagates ==
  Failed =>
    /\ reads[Len(reads)][1] = "failed"
    /\ Cardinality({ j \in 1 .. Len(reads) : reads[j][1] = "failed" }) = 1
    /\ status \in { "throwing", "threw" }
    /\ result = ReadError
    /\ status = "throwing" <=> Len(stack) > 0

\* an error raised below the root, after rows had been collected,
\* has reached the caller
C23_Witness ==
  /\ status = "threw"
  /\ call.fn = "readTableCells"
  /\ Failed
  /\ Len(rows) > 0
  /\ reads[Len(reads)][2] > 2

(***************************************************************************)
(* Whole databases: the schema on page 1, the table "t" (id integer        *)
(* primary key, country text) from page 2 and, after it, the index         *)
(* "idx_t_country" on its country column.  The index holds one entry       *)
(* (country, row key) for each row of the table.                           *)
(***************************************************************************)
\* "t", "idx_t_country" and the text "country"
TableName == << 116 >>
CountryWord == << 99, 111, 117, 110, 116, 114, 121 >>
IndexName == << 105, 100, 120, 95 >> \o TableName \o << 95 >> \o CountryWord

\* the country of each row key: "a" or "b"
CountryMaps ==
  { [ k \in 1 .. NumSmallKeys |-> IF k \in S THEN << 98 >> ELSE << 97 >> ] :
      S \in { { }, { 2 }, { 1, 3 } } }

\* a row of "t": the id column is stored as NULL, its value is the row key
RowCell(k, country) ==
  LET record == RecordOf(<< Column(0, << >>), Text(country) >>)
  IN  VarintOf(Len(record)) \o << k >> \o record

\* the pages of a table tree with the rows of "t" in its leaf cells
RowPages(pgs, country) ==
  [ n \in DOMAIN pgs |->
      IF pgs[n].type = TableLeaf
      THEN [ pgs[n] EXCEPT !.cells =
               [ i \in 1 .. Len(pgs[n].cells) |->
                   RowCell(parseRecord(pgs[n].cells[i]).rowid,
                           country[parseRecord(pgs[n].cells[i]).rowid]) ] ]
      ELSE pgs[n] ]

\* the index entries of all row keys in index order: by country, then row key
CountryEntries(country) ==
  LET keys == [ k \in 1 .. NumSmallKeys |-> k ]
      of(c) == SelectSeq(keys, LAMBDA k : country[k] = c)
      order == of(<< 97 >>) \o of(<< 98 >>)
  IN  [ j \in 1 .. Len(order) |-> TextEntry(country[order[j]], order[j]) ]

RECURSIVE TreeKeys(_)
TreeKeys(t) ==
  IF t.leaf THEN { t.keys[i] : i \in 1 .. Len(t.keys) }
  ELSE UNION { TreeKeys(t.kids[i]) : i \in 1 .. Len(t.kids) }

RECURSIVE IndexTreeRanks(_)
IndexTreeRanks(t) ==
  { t.keys[i] : i \in 1 .. Len(t.keys) }
  \cup UNION { IndexTreeRanks(t.kids[i]) : i \in 1 .. Len(t.kids) }

\* the schema page: the table alone, or the table and its index
DbSchema(indexRoot) ==
  LET table == SchemaEntry(TableWord, TableName, TableName, TableRoot, << 67, 116 >>)
      index == SchemaEntry(IndexWord, IndexName, TableName, indexRoot, << >>)
  IN  { SchemaLeaf(<< table >>), SchemaLeaf(<< table, index >>) }

Database(t, country, u) ==
  LET entries   == CountryEntries(country)
      indexRoot == TableRoot + TreeSize(t)
  IN  { ( 1 :> schema ) @@ RowPages(TablePages(t, TableRoot), country)
          @@ IndexPages(u, indexRoot, entries) :
        schema \in DbSchema(indexRoot) }

Databases ==
  UNION { UNION { UNION { Database(t, country, u) :
                          u \in { v \in IndexTrees(2, 1, NumSmallKeys) :
                                    { CountryEntries(country)[r].rowid : r \in IndexTreeRanks(v) }
                                      = TreeKeys(t)
                                    /\ Cardinality(IndexTreeRanks(v)) = Cardinality(TreeKeys(t)) } } :
                  country \in CountryMaps } :
          t \in TableTrees(2, 1, NumSmallKeys) }

\* the root page of the index: the first page after the table's
DbIndexRoot ==
  CHOOSE n \in DOMAIN pages :
    /\ pages[n].type \in { IndexLeaf, IndexInterior }
    /\ \A m \in DOMAIN pages : pages[m].type \in { IndexLeaf, IndexInterior } => n <= m

\* the values a query compares the country with: "a", "b" and "c"
WhereValues == { << 97 >>, << 98 >>, << 99 >> }

(***************************************************************************)
(* A session: one call after the other on the same database.               *)
(***************************************************************************)
\* the caller has its answer and goes on to its next call
NextCall ==
  /\ status \in { "done", "threw" }
  /\ call' = NoCall
  /\ stack' = << >>
  /\ rows' = << >>
  /\ rowids' = << >>
  /\ result' = NoResult
  /\ status' = "idle"
  /\ reads' = << >>
  /\ emitted' = << >>
  /\ UNCHANGED << pages, select, suspended >>

InitSession == pages \in Databases /\ Idle

NextSession ==
  \/ \E tableName \in { TableName, << 120 >> }, includeSql \in BOOLEAN :
       findTable(tableName, includeSql)
  \/ FT_Cell
  \/ FT_NotFound
  \/ findIndex(IndexName)
  \/ FI_Cell
  \/ FI_NotFound
  \/ \E rootPage \in { TableRoot, DbIndexRoot } : readTableCells(rootPage)
  \/ RTC_ReadPage
  \/ RTC_LeafCell
  \/ RTC_InteriorCell
  \/ RTC_Rightmost
  \/ RTC_Return
  \/ \E rowidSet \in { { }, { 2 } } : readTableCellsFiltered(TableRoot, rowidSet, << >>)
  \/ RTCF_ReadPage
  \/ RTCF_LeafCell
  \/ RTCF_InteriorCell
  \/ RTCF_Rightmost
  \/ RTCF_Return
  \/ \E targetRowid \in 1 .. NumSmallKeys : fetchRowByRowid(TableRoot, targetRowid)
  \/ FR_ReadPage
  \/ FR_LeafCell
  \/ FR_LeafMiss
  \/ FR_InteriorCell
  \/ FR_Rightmost
  \/ FR_Return
  \/ \E searchValue \in WhereValues : scanIndex(DbIndexRoot, searchValue)
  \/ SI_ReadPage
  \/ SI_LeafCell
  \/ SI_InteriorCell
  \/ SI_Rightmost
  \/ SI_Return
  \/ NextCall

SpecSession == InitSession /\ [][NextSession]_vars

\* the file operations a call can issue: reads of a page header, a pointer
\* array or a cell
ReadKinds == { "type", "header", "pointers", "rightmost", "cell" }

\* C24: whatever calls of findTable, findIndex, readTableCells,
\* readTableCellsFiltered, fetchRowByRowid and scanIndex follow each other,
\* no step changes the file, and every file operation issued is a read at
\* an absolute position of the file.
C24_ReadOnly ==
  [][ /\ pages' = pages
      /\ \A j \in 1 .. Len(reads') :
           reads'[j][1] \in ReadKinds /\ reads'[j][4] \in Nat ]_vars

\* an index scan of a session has returned row keys after reading pages
C24_Witness ==
  /\ status = "done"
  /\ call.fn = "scanIndex"
  /\ Len(rowids) > 0
  /\ Len(reads) > 3
  /\ pages \in Databases

(***************************************************************************)
(* Several navigations on the same file.  Every fileHandler.read is an     *)
(* await: the caller that started a navigation without awaiting it may     *)
(* start another one, and the runtime resumes the waiting calls in any     *)
(* order.  The current call's variables are its locals; a waiting call's   *)
(* locals are kept in suspended.                                           *)
(***************************************************************************)
\* the locals of the call that runs
Context ==
  [ call |-> call, stack |-> stack, rows |-> rows, rowids |-> rowids,
    result |-> result, status |-> status, reads |-> reads, emitted |-> emitted ]

\* the locals of a call that has not started
FreshContext ==
  [ call |-> NoCall, stack |-> << >>, rows |-> << >>, rowids |-> << >>,
    result |-> NoResult, status |-> "idle", reads |-> << >>, emitted |-> << >> ]

\* a module-level rows array: the resumed call finds what the last one left
ResumedShared(saved, current) == [ saved EXCEPT !.rows = current.rows ]

\* const rows = [] is a local of the call, as are pageNum, cellCount, i and
\* cellPointers of every activation: a resumed call finds what it left
Resumed(saved, current) == saved

Install(c) ==
  /\ call' = c.call
  /\ stack' = c.stack
  /\ rows' = c.rows
  /\ rowids' = c.rowids
  /\ result' = c.result
  /\ status' = c.status
  /\ reads' = c.reads
  /\ emitted' = c.emitted

InFlight(c) == c.status = "running" /\ Len(c.reads) > 0

\* the caller starts another navigation: after the first one has returned
\* (the call alone), or while the second one waits for a page
Another ==
  /\ \/ suspended = << >> /\ status = "done"
     \/ /\ Len(suspended) = 1
        /\ suspended[1].context.status = "done"
        /\ status = "running"
  /\ suspended' = Append(suspended, [ context |-> Context, interleaved |-> FALSE ])
  /\ Install(FreshContext)
  /\ pages' = FileAfterReads(pages)
  /\ UNCHANGED select

\* a page read completes for the call that waits in place k: it resumes,
\* and the call that ran waits in its place
Resume(k) ==
  /\ k \in 1 .. Len(suspended)
  /\ suspended[k].context.status = "running"
  /\ status \in { "running", "done" }
  /\ suspended' =
       [ suspended EXCEPT ![k] =
           [ context |-> Context,
             interleaved |-> suspended[k].interleaved
                               \/ (InFlight(Context) /\ InFlight(suspended[k].context)) ] ]
  /\ Install(Resumed(suspended[k].context, Context))
  /\ pages' = FileAfterReads(pages)
  /\ UNCHANGED select

\* the third call is the first one again, now among the others
SameAsFirst == Len(suspended) = 2 => call' = suspended[1].context.call

ConcurrentFiles ==
  { f \in Databases :
      /\ Len(f[1].cells) = 2
      /\ f[TableRoot].type = TableInterior
      /\ \E n \in DOMAIN f : f[n].type = IndexInterior }

InitConcurrent == pages \in ConcurrentFiles /\ Idle

NextConcurrent ==
  \/ readTableCells(TableRoot) /\ SameAsFirst
  \/ RTC_ReadPage
  \/ RTC_LeafCell
  \/ RTC_InteriorCell
  \/ RTC_Rightmost
  \/ RTC_Return
  \/ readTableCellsFiltered(TableRoot, { 2 }, << >>) /\ SameAsFirst
  \/ RTCF_ReadPage
  \/ RTCF_LeafCell
  \/ RTCF_InteriorCell
  \/ RTCF_Rightmost
  \/ RTCF_Return
  \/ \E targetRowid \in { 2, NumSmallKeys + 1 } :
       fetchRowByRowid(TableRoot, targetRowid) /\ SameAsFirst
  \/ FR_ReadPage
  \/ FR_LeafCell
  \/ FR_LeafMiss
  \/ FR_InteriorCell
  \/ FR_Rightmost
  \/ FR_Return
  \/ scanIndex(DbIndexRoot, << 97 >>) /\ SameAsFirst
  \/ SI_ReadPage
  \/ SI_LeafCell
  \/ SI_InteriorCell
  \/ SI_Rightmost
  \/ SI_Return
  \/ Another
  \/ \E k \in 1 .. 2 : Resume(k)

SpecConcurrent == InitConcurrent /\ [][NextConcurrent]_vars

\* the calls of the state: the current one (0) and those that wait or have
\* returned
CallAt(k) == IF k = 0 THEN Context ELSE suspended[k].context

(***************************************************************************)
(* C25: a navigation whose page reads are interleaved in any order with    *)
(* those of other navigations on the same file returns what the same call  *)
(* returns when it runs alone: the same result, rows and row keys, from    *)
(* the same reads.                                                         *)
(***************************************************************************)
C25_Isolation ==
  \A j \in 0 .. Len(suspended), k \in 0 .. Len(suspended) :
    LET c == CallAt(j)
        d == CallAt(k)
    IN  c.call = d.call /\ c.status = "done" /\ d.status = "done"
          => /\ c.result = d.result
             /\ c.rows = d.rows
             /\ c.rowids = d.rowids
             /\ c.reads = d.reads

\* the first call returned alone; the same call, interleaved read by read
\* with a different one, has returned too
C25_Witness ==
  /\ Len(suspended) = 2
  /\ suspended[1].context.status = "done"
  /\ status = "done"
  /\ suspended[2].context.status = "done"
  /\ suspended[2].interleaved
  /\ call = suspended[1].context.call
  /\ call.fn = "readTableCells"
  /\ suspended[2].context.call.fn = "scanIndex"
  /\ Len(result) > 1

(***************************************************************************)
(* The two scans of the same table, one after the other: the full scan     *)
(* returns and is kept, then the filtered scan runs from the same root.    *)
(***************************************************************************)
\* the full scan that has returned
FullScan == suspended[1].context

NextCompared ==
  \/ readTableCells(TableRoot) /\ suspended = << >>
  \/ RTC_ReadPage
  \/ RTC_LeafCell
  \/ RTC_InteriorCell
  \/ RTC_Rightmost
  \/ RTC_Return
  \/ Another /\ suspended = << >>
  \/ \E rowidSet \in { { }, { 1 }, { 2, NumSmallKeys }, 1 .. NumSmallKeys } :
       readTableCellsFiltered(TableRoot, rowidSet, << >>) /\ Len(suspended) = 1
  \/ RTCF_ReadPage
  \/ RTCF_LeafCell
  \/ RTCF_InteriorCell
  \/ RTCF_Rightmost
  \/ RTCF_Return

SpecCompared == InitScan /\ [][NextCompared]_vars

\* the pages of the reads of a log, in the order of the reads
PagesOf(log) == [ j \in 1 .. Len(log) |-> log[j][2] ]

(***************************************************************************)
(* C26: the filtered scan does not prune.  Whatever the key set, the       *)
(* filtered scan reads the pages the full scan from the same root reads,   *)
(* in the same order, page header reads and cell reads alike; what differs *)
(* is the rows kept, those of the full scan whose key is in the set.       *)
(***************************************************************************)
C26_NoPruning ==
  Len(suspended) = 1 /\ DoneWith("readTableCellsFiltered") =>
    /\ PagesOf(reads) = PagesOf(FullScan.reads)
    /\ reads = FullScan.reads
    /\ rows = SelectSeq(FullScan.result, LAMBDA r : r.rowid \in call.rowidSet)

\* a filtered scan for one key of a two-level tree has returned after the
\* full scan: it kept fewer rows and read all the pages
C26_Witness ==
  /\ Len(suspended) = 1
  /\ DoneWith("readTableCellsFiltered")
  /\ pages[TableRoot].type = TableInterior
  /\ Cardinality(call.rowidSet) = 1
  /\ Len(rows) < Len(FullScan.result)
  /\ Cardinality({ reads[j][2] : j \in 1 .. Len(reads) }) > 2

(***************************************************************************)
(* C27: the row key is a varint of table-leaf cells only.  parseRecord     *)
(* takes its row key from the varint that follows the payload length and   *)
(* its header from the varint after that one.  parseIndexEntry takes its   *)
(* header from the varint that follows the payload length, with no varint  *)
(* in between, and an interior cell parsed from offset 4 gives what the    *)
(* same entry gives as a leaf cell parsed from offset 0.                   *)
(***************************************************************************)
C27_RowKeyVarint ==
  /\ DoneWith("parseRecord") =>
       LET payloadEnd == VarintExtent(call.buffer, 0)
           keyEnd     == payloadEnd + VarintExtent(call.buffer, payloadEnd)
       IN  /\ result.rowid = readVarint(call.buffer, payloadEnd)[1]
           /\ result.values = readValues(call.buffer, BodyStart(call.buffer, keyEnd),
                                         HeaderTypes(call.buffer, keyEnd), 1)
  /\ DoneWith("parseIndexEntry") =>
       LET payloadEnd == call.startOffset + VarintExtent(call.buffer, call.startOffset)
           types      == HeaderTypes(call.buffer, payloadEnd)
       IN  /\ call.startOffset = 4 =>
                result = parseIndexEntry(Slice(call.buffer, 4, Len(call.buffer)), 0)
           /\ result.indexedValue =
                IF Len(types) >= 1
                THEN parseIndexValue(call.buffer, BodyStart(call.buffer, payloadEnd), types[1])
                ELSE << >>
           /\ Len(types) < 2 => result.rowid = NullNumber

\* an index-interior cell (child pointer, payload length, header, a text and
\* a row key) has been parsed from offset 4 into its text and its row key
C27_Witness ==
  /\ DoneWith("parseIndexEntry")
  /\ call.startOffset = 4
  /\ Len(HeaderTypes(call.buffer, 5)) = 2
  /\ result.indexedValue = << 97 >>
  /\ result.rowid /= NullNumber

(***************************************************************************)
(* Termination.  The four navigators on the well-formed table trees and    *)
(* index trees of every height up to MaxDepth.  The caller starts a call;  *)
(* the steps of a started call are continuations of awaited reads, which   *)
(* the runtime runs once the read has completed.                           *)
(***************************************************************************)
TerminatingFiles == OrderedTableFiles \cup IndexFilesOver(TextEntries)

InitTerminating == pages \in TerminatingFiles /\ Idle

Continuation ==
  \/ RTC_ReadPage
  \/ RTC_LeafCell
  \/ RTC_InteriorCell
  \/ RTC_Rightmost
  \/ RTC_Return
  \/ RTCF_ReadPage
  \/ RTCF_LeafCell
  \/ RTCF_InteriorCell
  \/ RTCF_Rightmost
  \/ RTCF_Return
  \/ FR_ReadPage
  \/ FR_LeafCell
  \/ FR_LeafMiss
  \/ FR_InteriorCell
  \/ FR_Rightmost
  \/ FR_Return
  \/ SI_ReadPage
  \/ SI_LeafCell
  \/ SI_InteriorCell
  \/ SI_Rightmost
  \/ SI_Return

NextTerminating ==
  \/ readTableCells(TableRoot)
  \/ readTableCellsFiltered(TableRoot, { 2 }, << >>)
  \/ \E targetRowid \in { 2, NumKeys } : fetchRowByRowid(TableRoot, targetRowid)
  \/ scanIndex(IndexRoot, << 98 >>)
  \/ Continuation

\* the call has a statement to go on with: the page type to read, a turn of
\* a loop, the descent after the loop, or the end of the innermost activation
CanResume ==
  /\ Len(stack) > 0
  /\ \/ Top.pc \in { "start", "interior" }
     \/ Top.pc = "leaf" /\ ~ LoopDone(Top)
     \/ IF call.fn = "fetchRowByRowid" THEN Top.pc \in { "leaf", "return" } ELSE AtEnd(Top)

\* what a step can leave of the innermost activation: its page type read,
\* its loop one turn on, or nothing left to do but return
Advanced ==
  { AfterType(Top, TableLeaf, TableInterior), AfterType(Top, IndexLeaf, IndexInterior),
    [ Top EXCEPT !.i = @ + 1 ], [ Top EXCEPT !.pc = "return" ] }

\* the activations after a step: the innermost one has ended, has advanced,
\* or has advanced and called itself on a child page
StacksAfter ==
  { Below } \cup { Append(Below, f) : f \in Advanced }
    \cup { Append(Below, f) \o << Frame(n) >> : f \in Advanced, n \in DOMAIN pages }

\* an awaited read completes and the runtime resumes the call: a step of
\* Continuation, named by what it does to the activations alone
Resumption ==
  /\ status = "running"
  /\ CanResume
  /\ stack' \in StacksAfter

SpecTerminating ==
  InitTerminating /\ [][NextTerminating]_vars /\ WF_stack(Resumption)

\* the height of the tree below page n: 1 for a page without children
RECURSIVE HeightWithin(_, _)
HeightWithin(n, fuel) ==
  IF fuel = 0 \/ ChildrenOf(n) = << >> THEN 1
  ELSE LET hs == { HeightWithin(ChildrenOf(n)[j], fuel - 1) : j \in 1 .. Len(ChildrenOf(n)) }
       IN  1 + CHOOSE h \in hs : \A g \in hs : g <= h

Height(root) == HeightWithin(root, Cardinality(DOMAIN pages))

\* the number of reads of the given kind on page n
ReadsOf(kind, n) ==
  Cardinality({ j \in 1 .. Len(reads) : reads[j][1] = kind /\ reads[j][2] = n })

IsScan == call.fn \in { "readTableCells", "readTableCellsFiltered" }

\* a scan of a table tree has read the type and the cell count of every page
\* reachable from the root once, and of no other page
HeadersOnce ==
  status = "done" /\ IsScan /\ pages[call.rootPage].type \in { TableLeaf, TableInterior } =>
    \A n \in DOMAIN pages :
      /\ ReadsOf("type", n) = IF n \in Reachable(call.rootPage) THEN 1 ELSE 0
      /\ ReadsOf("header", n) = IF n \in Reachable(call.rootPage) THEN 1 ELSE 0

(***************************************************************************)
(* C28: on a finite acyclic tree every navigator call returns; it never    *)
(* has more activations than the tree is high; the full and the filtered   *)
(* scan read the header of every reachable page exactly once.              *)
(***************************************************************************)
C28_Terminates ==
  /\ (status = "running") ~> (status = "done")
  /\ [](status = "running" => Len(stack) <= Height(call.rootPage))
  /\ []HeadersOnce

\* a scan of a tree of three levels has returned after running three
\* activations deep
C28_Witness ==
  /\ status = "done"
  /\ IsScan
  /\ Height(call.rootPage) = 3
  /\ Cardinality(Reachable(call.rootPage)) > 4
  /\ \E n \in Reachable(call.rootPage) :
       Len(PathWithin(call.rootPage, n, Cardinality(DOMAIN pages))) = 2 /\ ReadsOf("header", n) = 1

(***************************************************************************)
(* commands/select: handleSelect from the declaration of rows on, for the  *)
(* query SELECT id, country FROM t WHERE country = '<whereValue>'.  What   *)
(* the lines before compute from the command and the table declaration is  *)
(* fixed: rootPage is TableRoot, columns is [id, country] with id the      *)
(* INTEGER PRIMARY KEY, so columnIndices is [0, 1], useRowidForColumn is    *)
(* [true, false], whereColumnIndex is 1 and whereUsesRowid is false.       *)
(* select holds the locals; phase is the statement it waits at.            *)
(***************************************************************************)
whereColumnIndex == 1

\* the locals after let rows = []; let usedIndex = false; and the test of
\* whereColumn === 'country' && whereValue (an empty string is falsy)
SelectLocals(whereValue) ==
  [ phase |-> IF whereValue # << >> THEN "findIndex" ELSE "scan",
    whereValue |-> whereValue, indexRootPage |-> 0, matchingRowids |-> << >>,
    k |-> 1, rows |-> << >>, usedIndex |-> FALSE, printed |-> << >> ]

\* control is back in handleSelect: nothing is left of the awaited call
BackInCaller ==
  /\ call' = NoCall
  /\ stack' = << >>
  /\ rows' = << >>
  /\ rowids' = << >>
  /\ result' = NoResult
  /\ status' = "idle"
  /\ reads' = << >>
  /\ emitted' = << >>
  /\ pages' = FileAfterReads(pages)
  /\ UNCHANGED suspended

handleSelect(whereValue) ==
  /\ status = "idle"
  /\ select = NoSelect
  /\ select' = SelectLocals(whereValue)
  /\ pages' = FileAfterReads(pages)
  /\ UNCHANGED << suspended, call, stack, rows, rowids, result, status, reads, emitted >>

\* const indexRootPage = await findIndex(fileHandler, indexName)
HS_FindIndex == select.phase = "findIndex" /\ findIndex(IndexName)

HS_IndexFound ==
  /\ select.phase = "findIndex"
  /\ status = "done"
  /\ select' = [ select EXCEPT !.phase = "scanIndex", !.indexRootPage = result.value ]
  /\ BackInCaller

\* const matchingRowids = await scanIndex(..., indexRootPage, whereValue)
HS_ScanIndex ==
  select.phase = "scanIndex" /\ scanIndex(select.indexRootPage, select.whereValue)

HS_Scanned ==
  /\ select.phase = "scanIndex"
  /\ status = "done"
  /\ select' = [ select EXCEPT !.phase = "fetch", !.matchingRowids = result, !.k = 1 ]
  /\ BackInCaller

\* for (const rowid of matchingRowids): await fetchRowByRowid(..., rowid)
HS_Fetch ==
  /\ select.phase = "fetch"
  /\ select.k <= Len(select.matchingRowids)
  /\ fetchRowByRowid(TableRoot, select.matchingRowids[select.k])

\* if (row) rows.push(row)
HS_Fetched ==
  /\ select.phase = "fetch"
  /\ status = "done"
  /\ select' = [ select EXCEPT !.k = @ + 1,
                              !.rows = IF result # Null THEN Append(@, result) ELSE @ ]
  /\ BackInCaller

\* usedIndex = true, after the loop
HS_UsedIndex ==
  /\ select.phase = "fetch"
  /\ status = "idle"
  /\ select.k > Len(select.matchingRowids)
  /\ select' = [ select EXCEPT !.phase = "print", !.usedIndex = TRUE ]
  /\ pages' = FileAfterReads(pages)
  /\ UNCHANGED << suspended, call, stack, rows, rowids, result, status, reads, emitted >>

\* catch (e): whatever was raised in the try block, go on to the full scan
HS_Catch ==
  /\ select.phase \in { "findIndex", "scanIndex", "fetch" }
  /\ status = "threw"
  /\ select' = [ select EXCEPT !.phase = "scan" ]
  /\ BackInCaller

\* await readTableCells(fileHandler, pageSize, rootPage), in the catch block
\* and in the else branch
HS_ReadTableCells == select.phase = "scan" /\ readTableCells(TableRoot)

\* a fallback that pushed the scanned rows onto those already fetched
HS_RowsAppended(fetched, scanned) == fetched \o scanned

\* rows = await readTableCells(...): the rows fetched so far are dropped
HS_RowsAssigned(fetched, scanned) == scanned

HS_ScanDone ==
  /\ select.phase = "scan"
  /\ status = "done"
  /\ select' = [ select EXCEPT !.phase = "print",
                              !.rows = HS_RowsAssigned(@, result) ]
  /\ BackInCaller

\* an error of the full scan is not caught: handleSelect rejects
HS_Throw ==
  /\ select.phase = "scan"
  /\ status = "threw"
  /\ select' = [ select EXCEPT !.phase = "threw" ]
  /\ BackInCaller

\* the WHERE filter of the forEach: applied unless the index was used
HS_Kept(row) ==
  (select.whereValue # << >> /\ ~ select.usedIndex)
    => Elem(row.values, whereColumnIndex) = select.whereValue

\* values.join('|') for the columns id (the rowid) and country
HS_Line(row) == NumToString(row.rowid) \o << 124 >> \o Elem(row.values, 1)

RECURSIVE HS_Lines(_)
HS_Lines(rs) ==
  IF rs = << >> THEN << >>
  ELSE (IF HS_Kept(Head(rs)) THEN << HS_Line(Head(rs)) >> ELSE << >>) \o HS_Lines(Tail(rs))

\* rows.forEach(...): the lines written by console.log
HS_Print ==
  /\ select.phase = "print"
  /\ select' = [ select EXCEPT !.phase = "done", !.printed = HS_Lines(select.rows) ]
  /\ pages' = FileAfterReads(pages)
  /\ UNCHANGED << suspended, call, stack, rows, rowids, result, status, reads, emitted >>

\* the database after a row was deleted and the index not brought up to date:
\* the last row of the last leaf page of the table is gone, its index entry
\* is still there
LastTableLeaf(f) ==
  CHOOSE n \in DOMAIN f :
    /\ f[n].type = TableLeaf
    /\ \A m \in DOMAIN f : f[m].type = TableLeaf /\ m # 1 => m <= n

WithStaleEntry(f) ==
  [ f EXCEPT ![LastTableLeaf(f)].cells = SubSeq(@, 1, Len(@) - 1) ]

SelectFiles == Databases \cup { WithStaleEntry(f) : f \in Databases }

InitSelect == pages \in SelectFiles /\ Idle

NextSelect ==
  \/ \E whereValue \in WhereValues \cup { << >> } : handleSelect(whereValue)
  \/ HS_FindIndex
  \/ FI_Cell
  \/ FI_NotFound
  \/ HS_IndexFound
  \/ HS_ScanIndex
  \/ SI_ReadPage
  \/ SI_LeafCell
  \/ SI_InteriorCell
  \/ SI_Rightmost
  \/ SI_Return
  \/ HS_Scanned
  \/ HS_Fetch
  \/ FR_ReadPage
  \/ FR_LeafCell
  \/ FR_LeafMiss
  \/ FR_InteriorCell
  \/ FR_Rightmost
  \/ FR_Return
  \/ HS_Fetched
  \/ HS_UsedIndex
  \/ Raise
  \/ Unwind
  \/ HS_Catch
  \/ HS_ReadTableCells
  \/ RTC_ReadPage
  \/ RTC_LeafCell
  \/ RTC_InteriorCell
  \/ RTC_Rightmost
  \/ RTC_Return
  \/ HS_ScanDone
  \/ HS_Throw
  \/ HS_Print

SpecSelect == InitSelect /\ [][NextSelect]_vars

\* the lines of the full scan with the equality filter: one for each leaf
\* cell of the table whose country is the value asked for
ScanLines(whereValue) ==
  { c \in LeafCells(TableRoot) :
      Elem(parseRecord(pages[c[1]].cells[c[2]]).values, whereColumnIndex) = whereValue }

LineOf(c) == HS_Line(parseRecord(pages[c[1]].cells[c[2]]))

\* the printed lines are, as a multiset, the lines of the full scan with the
\* equality filter
PrintsScanLines ==
  /\ Len(select.printed) = Cardinality(ScanLines(select.whereValue))
  /\ \A c \in ScanLines(select.whereValue) :
       Cardinality({ j \in 1 .. Len(select.printed) : select.printed[j] = LineOf(c) })
         = Cardinality({ d \in ScanLines(select.whereValue) : LineOf(d) = LineOf(c) })

(***************************************************************************)
(* C29: for WHERE country = v on a table with the index idx_t_country, the *)
(* index path (scanIndex, then fetchRowByRowid for each row key) prints    *)
(* the same multiset of lines as the full scan with the equality filter.   *)
(***************************************************************************)
C29_IndexPathEquivalent ==
  select.phase = "done" /\ select.usedIndex => PrintsScanLines

(***************************************************************************)
(* C30: when findIndex, scanIndex or a fetchRowByRowid raises, the lines   *)
(* printed are exactly those of the full scan with the equality filter:    *)
(* usedIndex is false and the rows fetched before the error are replaced   *)
(* by the rows of the scan.                                                *)
(***************************************************************************)
C30_CleanFallback ==
  select.phase = "done" /\ select.whereValue # << >> /\ ~ select.usedIndex =>
    /\ PrintsScanLines
    /\ \A j \in 1 .. Len(select.printed), k \in 1 .. Len(select.printed) :
         j < k => select.printed[j] # select.printed[k]

\* the second fetch failed after a row had been fetched through the index;
\* the query has printed the matching rows of the full scan, all of them
C30_Witness ==
  /\ select.phase = "done"
  /\ ~ select.usedIndex
  /\ select.k > 1
  /\ Len(select.matchingRowids) > 1
  /\ Len(select.printed) > 1
  /\ Len(select.rows) = Len(select.printed)

====
